---------------------------- MODULE Spec2Model ----------------------------
(***************************************************************************)
(* A model of the RSI divergence bot: the divergence detector              *)
(* (analyzer/divergence_detector.py), the RSI support/resistance reversal  *)
(* detector (analyzer/rsi_sr_detector.py), the trade simulator and the     *)
(* statistics of the backtester (backtester.py), the alert path            *)
(* (main.py, database/db_manager.py) and the candle fetcher                *)
(* (analyzer/data_fetcher.py).                                             *)
(*                                                                         *)
(* Numbers.  Prices, volumes and RSI values are integers.  Every value the *)
(* code derives from them by division (a percentage, a prominence, a       *)
(* score) is kept as an exact fraction <<numerator, denominator>> with a   *)
(* positive denominator, and compared by cross-multiplication, so no       *)
(* threshold comparison is blurred by a fixed-point grid.  A score that    *)
(* the code rounds to one decimal, round(total, 1), is kept in tenths      *)
(* (60.0 is 600).                                                          *)
(*                                                                         *)
(* A table (a pandas DataFrame) is a record of its length and its columns, *)
(* each column a function on the positions 0 .. len-1, as in the code.     *)
(***************************************************************************)
EXTENDS Integers, Sequences, FiniteSets, TLC

VARIABLES
    df,           \* the candle + indicator table handed to a detector
    detector,     \* the fields of the HumanLikeDivergenceDetector object
    op,           \* the detector entry point that ran last ("idle": none yet)
    pivots,       \* what find_prominent_peaks / find_prominent_troughs returned
    divergences,  \* what detect_all_divergences returned
    sr_detector,  \* the fields of the RSISupportResistanceDetector object
    reversals,    \* what detect_all_reversals returned
    sim,          \* the last call of _simulate_trade_outcome: arguments and result
    bt_call,      \* the arguments of the running backtest_single_coin (None: none)
    coin_trades,  \* backtest_single_coin's local list coin_trades
    trades,       \* DivergenceBacktester.trades
    results,      \* DivergenceBacktester.results
    summary,      \* the figures print_summary printed last
    now,          \* datetime.now(): hours in the alert path, days in the backtest
    mode,         \* EnhancedRSIBot.mode
    db,           \* the rows of the table divergences, in id order
    runner,       \* the process_signals call in progress
    sent,         \* the alerts handed to telegram_bot.send_message
    request,      \* what fetch_ohlcv was called for and on which exchange
    fetch,        \* the fetch_ohlcv call in progress
    confirmation, \* the last direct call of check_price_action_confirms
    score,        \* the last two direct calls of _calculate_quality_score
    mtf,          \* the scan_with_mtf_filter call in progress
    replay,       \* the backtest_single_coin calls made so far, with what each returned
    bot,          \* EnhancedRSIBot.is_running and the position of its loops
    opt,          \* the optimize_parameters call in progress
    walk,         \* the loop of a backtest in progress, with the steps it took
    scheduled,    \* the process_signals call of a scan that runs beside `runner`
    scanner       \* the fields of the Scanner object and its scan in progress

detVars == <<df, detector, op, pivots, divergences, sr_detector, reversals>>

btVars == <<sim, bt_call, coin_trades, trades, results, summary>>

alertVars == <<now, mode, db, runner, sent>>

fetchVars == <<request, fetch>>

runVars == <<replay, bot, opt, walk, scheduled, scanner>>

extVars == <<confirmation, score, mtf, runVars>>

vars == <<detVars, btVars, alertVars, fetchVars, extVars>>

None == [type |-> "None"]

-----------------------------------------------------------------------------
(* Exact fractions *)

Abs(x) == IF x < 0 THEN -x ELSE x

Min2(a, b) == IF a <= b THEN a ELSE b

Max2(a, b) == IF a >= b THEN a ELSE b

RLt(a, b) == a[1] * b[2] < b[1] * a[2]

RLe(a, b) == a[1] * b[2] <= b[1] * a[2]

REq(a, b) == a[1] * b[2] = b[1] * a[2]

RMin(a, b) == IF RLe(a, b) THEN a ELSE b

RMax(a, b) == IF RLe(a, b) THEN b ELSE a

RAdd(a, b) == <<a[1] * b[2] + b[1] * a[2], a[2] * b[2]>>

RInt(k) == <<k, 1>>

\* (a - b) / b * 100, the percentage by which a lies above b (b > 0)
PctOver(a, b) == <<100 * (a - b), b>>

RAbs(a) == <<Abs(a[1]), a[2]>>

RSub(a, b) == <<a[1] * b[2] - b[1] * a[2], a[2] * b[2]>>

RECURSIVE GCD(_, _)
GCD(a, b) == IF b = 0 THEN a ELSE GCD(b, a % b)

\* the fraction in lowest terms
RNorm(a) ==
    IF a[1] = 0 THEN <<0, 1>>
    ELSE <<a[1] \div GCD(Abs(a[1]), a[2]), a[2] \div GCD(Abs(a[1]), a[2])>>

\* a / b for b > 0
RDiv(a, b) == RNorm(<<a[1] * b[2], a[2] * b[1]>>)

\* Python's round(x, 1) of x = n/d, in tenths: the nearest tenth, an exact
\* tie going to the even one (\div rounds down and % is never negative).
RoundTenths(x) ==
    LET n == 10 * x[1]
        d == x[2]
        q == n \div d
        r == n % d
    IN  IF 2 * r < d THEN q
        ELSE IF 2 * r > d THEN q + 1
        ELSE IF q % 2 = 0 THEN q ELSE q + 1

-----------------------------------------------------------------------------
(* analyzer/divergence_detector.py *)

\* argrelextrema(data, comparator, order=3)
PivotOrder == 3

\* candidates this close to either end of the series are skipped
EdgeSkip == 5

\* prominence is measured against the 10 values before the pivot and the
\* values after it up to position pivot + 10 (exclusive)
ProminenceWindow == 10

MinPivotRows == 20

MinDetectRows == 30

\* price difference between the two pivots, in percent: 0.5 = 1/2
MinPriceChangePct == <<1, 2>>

ConfirmCandles == 3

MinConfirming == 2

QualityFloor == 60

\* numpy's take(..., mode='clip') as argrelextrema uses it
Clip(i, n) == IF i < 0 THEN 0 ELSE IF i > n - 1 THEN n - 1 ELSE i

SeqMin(data, lo, hi) ==
    CHOOSE m \in {data[j] : j \in lo..hi} : \A j \in lo..hi : m <= data[j]

SeqMax(data, lo, hi) ==
    CHOOSE m \in {data[j] : j \in lo..hi} : \A j \in lo..hi : m >= data[j]

IsLocalMaxWeak(data, n, i) ==
    \A s \in 1..PivotOrder :
        /\ data[i] >= data[Clip(i + s, n)]
        /\ data[i] >= data[Clip(i - s, n)]

\* i is in argrelextrema(data, np.greater, order=3)[0]
IsLocalMax(data, n, i) ==
    \A s \in 1..PivotOrder :
        /\ data[i] > data[Clip(i + s, n)]
        /\ data[i] > data[Clip(i - s, n)]

\* i is in argrelextrema(data, np.less, order=3)[0]
IsLocalMin(data, n, i) ==
    \A s \in 1..PivotOrder :
        /\ data[i] < data[Clip(i + s, n)]
        /\ data[i] < data[Clip(i - s, n)]

PeakProminence(data, n, i) ==
    LET left_min  == SeqMin(data, Max2(0, i - ProminenceWindow), i - 1)
        right_min == SeqMin(data, i + 1, Min2(n, i + ProminenceWindow) - 1)
        left_prominence  == IF left_min > 0 THEN PctOver(data[i], left_min) ELSE RInt(0)
        right_prominence == IF right_min > 0 THEN PctOver(data[i], right_min) ELSE RInt(0)
    IN  [left |-> left_prominence, right |-> right_prominence]

TroughProminence(data, n, i) ==
    LET left_max  == SeqMax(data, Max2(0, i - ProminenceWindow), i - 1)
        right_max == SeqMax(data, i + 1, Min2(n, i + ProminenceWindow) - 1)
        left_prominence  == IF data[i] > 0 THEN <<100 * (left_max - data[i]), data[i]>> ELSE RInt(0)
        right_prominence == IF data[i] > 0 THEN <<100 * (right_max - data[i]), data[i]>> ELSE RInt(0)
    IN  [left |-> left_prominence, right |-> right_prominence]

PeaksFrom(data, n, det, i) ==
    LET Keep(j) ==
            LET p == PeakProminence(data, n, j)
            IN  /\ IsLocalMax(data, n, j)
                /\ ~(j < EdgeSkip \/ j >= n - EdgeSkip)
                /\ RLe(RInt(det.min_peak_prominence), p.left)
                /\ RLe(RInt(det.min_peak_prominence), p.right)
        Pivot(j) ==
            LET p == PeakProminence(data, n, j)
            IN  [index |-> j, value |-> data[j],
                 prominence |-> RMin(p.left, p.right)]
        kept == SelectSeq([k \in 1..Max2(0, n - i) |-> i + k - 1], Keep)
    IN  [k \in 1..Len(kept) |-> Pivot(kept[k])]

TroughsFrom(data, n, det, i) ==
    LET Keep(j) ==
            LET p == TroughProminence(data, n, j)
            IN  /\ IsLocalMin(data, n, j)
                /\ ~(j < EdgeSkip \/ j >= n - EdgeSkip)
                /\ RLe(RInt(det.min_peak_prominence), p.left)
                /\ RLe(RInt(det.min_peak_prominence), p.right)
        Pivot(j) ==
            LET p == TroughProminence(data, n, j)
            IN  [index |-> j, value |-> data[j],
                 prominence |-> RMin(p.left, p.right)]
        kept == SelectSeq([k \in 1..Max2(0, n - i) |-> i + k - 1], Keep)
    IN  [k \in 1..Len(kept) |-> Pivot(kept[k])]

\* the rows that are no edge rows and stand over (strict) or not under
\* their neighbours, as pivots
NonEdgeRows(d, column, strict) ==
    LET rows == SelectSeq([k \in 1..d.len |-> k - 1],
                          LAMBDA i : /\ ~(i < EdgeSkip \/ i >= d.len - EdgeSkip)
                                     /\ IF strict
                                        THEN IsLocalMax(d[column], d.len, i)
                                        ELSE IsLocalMaxWeak(d[column], d.len, i))
    IN  [k \in 1..Len(rows) |->
            [index |-> rows[k], value |-> d[column][rows[k]],
             prominence |-> RMin(PeakProminence(d[column], d.len, rows[k]).left,
                                 PeakProminence(d[column], d.len, rows[k]).right)]]

find_prominent_peaks_plateau(d, det, column) ==
    IF d.len < MinPivotRows THEN <<>>
    ELSE NonEdgeRows(d, column, FALSE)

find_prominent_peaks_unfiltered(d, det, column) ==
    IF d.len < MinPivotRows THEN <<>>
    ELSE NonEdgeRows(d, column, TRUE)

find_prominent_peaks(d, det, column) ==
    IF d.len < MinPivotRows THEN <<>>
    ELSE PeaksFrom(d[column], d.len, det, 0)

find_prominent_troughs(d, det, column) ==
    IF d.len < MinPivotRows THEN <<>>
    ELSE TroughsFrom(d[column], d.len, det, 0)

get_rsi_at_peaks_next(d, price_peaks) ==
    LET ok == SelectSeq(price_peaks, LAMBDA p : p.index < d.len)
    IN  [k \in 1..Len(ok) |->
            [index |-> ok[k].index, price |-> ok[k].value,
             rsi |-> d.rsi[ok[k].index + 1], prominence |-> ok[k].prominence]]

get_rsi_at_peaks(d, price_peaks) ==
    LET ok == SelectSeq(price_peaks, LAMBDA p : p.index < d.len)
    IN  [k \in 1..Len(ok) |->
            [index |-> ok[k].index, price |-> ok[k].value,
             rsi |-> d.rsi[ok[k].index], prominence |-> ok[k].prominence]]


validate_divergence_alignment_nodir(det, peak1, peak2, divergence_type) ==
    LET time_distance == Abs(peak2.index - peak1.index)
        price_change_pct == RAbs(PctOver(peak2.price, peak1.price))
        rsi_diff == Abs(peak2.rsi - peak1.rsi)
    IN  IF time_distance < det.min_time_between_peaks
        THEN [valid |-> FALSE, reason |-> "Peaks too close together"]
        ELSE IF time_distance > det.lookback_candles
        THEN [valid |-> FALSE, reason |-> "Peaks too far apart"]
        ELSE IF RLt(price_change_pct, MinPriceChangePct)
        THEN [valid |-> FALSE, reason |-> "Price difference too small"]
        ELSE IF rsi_diff < det.min_rsi_divergence
        THEN [valid |-> FALSE, reason |-> "RSI divergence too small"]
        ELSE [valid |-> TRUE, reason |-> "Valid"]

validate_divergence_alignment_nogates(det, peak1, peak2, divergence_type) ==
    IF /\ divergence_type = "BEARISH"
       /\ ~(peak2.price > peak1.price /\ peak2.rsi < peak1.rsi)
    THEN [valid |-> FALSE, reason |-> "Pattern doesn't match bearish divergence"]
    ELSE IF /\ divergence_type = "BULLISH"
            /\ ~(peak2.price < peak1.price /\ peak2.rsi > peak1.rsi)
    THEN [valid |-> FALSE, reason |-> "Pattern doesn't match bullish divergence"]
    ELSE [valid |-> TRUE, reason |-> "Valid"]

validate_divergence_alignment(det, peak1, peak2, divergence_type) ==
    LET time_distance == Abs(peak2.index - peak1.index)
        price_change_pct == RAbs(PctOver(peak2.price, peak1.price))
        rsi_diff == Abs(peak2.rsi - peak1.rsi)
    IN  IF time_distance < det.min_time_between_peaks
        THEN [valid |-> FALSE, reason |-> "Peaks too close together"]
        ELSE IF time_distance > det.lookback_candles
        THEN [valid |-> FALSE, reason |-> "Peaks too far apart"]
        ELSE IF RLt(price_change_pct, MinPriceChangePct)
        THEN [valid |-> FALSE, reason |-> "Price difference too small"]
        ELSE IF rsi_diff < det.min_rsi_divergence
        THEN [valid |-> FALSE, reason |-> "RSI divergence too small"]
        ELSE IF divergence_type = "BEARISH"
        THEN IF ~(peak2.price > peak1.price /\ peak2.rsi < peak1.rsi)
             THEN [valid |-> FALSE, reason |-> "Pattern doesn't match bearish divergence"]
             ELSE IF rsi_diff < det.min_rsi_divergence
             THEN [valid |-> FALSE, reason |-> "RSI drop not significant enough"]
             ELSE [valid |-> TRUE, reason |-> "Valid"]
        ELSE IF divergence_type = "BULLISH"
        THEN IF ~(peak2.price < peak1.price /\ peak2.rsi > peak1.rsi)
             THEN [valid |-> FALSE, reason |-> "Pattern doesn't match bullish divergence"]
             ELSE IF rsi_diff < det.min_rsi_divergence
             THEN [valid |-> FALSE, reason |-> "RSI rise not significant enough"]
             ELSE [valid |-> TRUE, reason |-> "Valid"]
        ELSE [valid |-> TRUE, reason |-> "Valid"]

\* how many of the closes at positions from .. to lie below (dir = -1) or
\* above (dir = 1) the price ref
CountCloses(d, from, to, ref, dir) ==
    Cardinality({j \in from..to :
                    IF dir < 0 THEN d.close[j] < ref ELSE d.close[j] > ref})

\* the same check satisfied by a single confirming close
check_price_action_confirms_one(d, det, divergence, current_idx) ==
    IF det.require_confirmation
    THEN IF current_idx + ConfirmCandles >= d.len
         THEN [confirmed |-> FALSE, reason |-> "Not enough candles after signal"]
         ELSE LET current_price == d.close[current_idx]
                  lo == current_idx + 1
                  hi == current_idx + ConfirmCandles
              IN  IF /\ divergence = "BEARISH"
                     /\ CountCloses(d, lo, hi, current_price, -1) < 1
                  THEN [confirmed |-> FALSE,
                        reason |-> "Price not falling after bearish divergence"]
                  ELSE IF /\ divergence = "BULLISH"
                          /\ CountCloses(d, lo, hi, current_price, 1) < 1
                  THEN [confirmed |-> FALSE,
                        reason |-> "Price not rising after bullish divergence"]
                  ELSE [confirmed |-> TRUE, reason |-> "Confirmed"]
    ELSE [confirmed |-> TRUE, reason |-> "Confirmed"]

\* the same check looking at the candles whether or not confirmation is
\* required
check_price_action_confirms_always(d, det, divergence, current_idx) ==
    IF current_idx + ConfirmCandles >= d.len
    THEN [confirmed |-> FALSE, reason |-> "Not enough candles after signal"]
    ELSE LET current_price == d.close[current_idx]
             lo == current_idx + 1
             hi == current_idx + ConfirmCandles
         IN  IF /\ divergence = "BEARISH"
                /\ CountCloses(d, lo, hi, current_price, -1) < MinConfirming
             THEN [confirmed |-> FALSE,
                   reason |-> "Price not falling after bearish divergence"]
             ELSE IF /\ divergence = "BULLISH"
                     /\ CountCloses(d, lo, hi, current_price, 1) < MinConfirming
             THEN [confirmed |-> FALSE,
                   reason |-> "Price not rising after bullish divergence"]
             ELSE [confirmed |-> TRUE, reason |-> "Confirmed"]

check_price_action_confirms(d, det, divergence, current_idx) ==
    IF det.require_confirmation
    THEN IF current_idx + ConfirmCandles >= d.len
         THEN [confirmed |-> FALSE, reason |-> "Not enough candles after signal"]
         ELSE LET current_price == d.close[current_idx]
                  lo == current_idx + 1
                  hi == current_idx + ConfirmCandles
              IN  IF /\ divergence = "BEARISH"
                     /\ CountCloses(d, lo, hi, current_price, -1) < MinConfirming
                  THEN [confirmed |-> FALSE,
                        reason |-> "Price not falling after bearish divergence"]
                  ELSE IF /\ divergence = "BULLISH"
                          /\ CountCloses(d, lo, hi, current_price, 1) < MinConfirming
                  THEN [confirmed |-> FALSE,
                        reason |-> "Price not rising after bullish divergence"]
                  ELSE [confirmed |-> TRUE, reason |-> "Confirmed"]
    ELSE [confirmed |-> TRUE, reason |-> "Confirmed"]

PriceScoreFactor == 6

PriceScoreMax == 30

RsiScoreFactor == 3

RsiScoreMax == 30

ProminenceScoreFactor == 4

ProminenceScoreMax == 20

ConfirmationBonus == 20

ScoreMax == 100

\* the same score without the cap on the RSI part
_calculate_quality_score_uncapped(price_change_pct, rsi_change, prominence, confirmed) ==
    LET apc == RAbs(price_change_pct)
        price_score == RMin(<<apc[1] * PriceScoreFactor, apc[2]>>, RInt(PriceScoreMax))
        rsi_score == Abs(rsi_change) * RsiScoreFactor
        prominence_score ==
            RMin(<<prominence[1] * ProminenceScoreFactor, prominence[2]>>,
                 RInt(ProminenceScoreMax))
        confirmation_score == IF confirmed THEN ConfirmationBonus ELSE 0
        total == RAdd(RAdd(price_score, prominence_score),
                      RInt(rsi_score + confirmation_score))
    IN  Min2(RoundTenths(total), ScoreMax * 10)

\* the same score with the bonus given to the unconfirmed
_calculate_quality_score_penalty(price_change_pct, rsi_change, prominence, confirmed) ==
    LET apc == RAbs(price_change_pct)
        price_score == RMin(<<apc[1] * PriceScoreFactor, apc[2]>>, RInt(PriceScoreMax))
        rsi_score == Min2(Abs(rsi_change) * RsiScoreFactor, RsiScoreMax)
        prominence_score ==
            RMin(<<prominence[1] * ProminenceScoreFactor, prominence[2]>>,
                 RInt(ProminenceScoreMax))
        confirmation_score == IF confirmed THEN 0 ELSE ConfirmationBonus
        total == RAdd(RAdd(price_score, prominence_score),
                      RInt(rsi_score + confirmation_score))
    IN  Min2(RoundTenths(total), ScoreMax * 10)

\* the score in tenths; price_change_pct and prominence are fractions,
\* rsi_change an integer
_calculate_quality_score(price_change_pct, rsi_change, prominence, confirmed) ==
    LET apc == RAbs(price_change_pct)
        price_score == RMin(<<apc[1] * PriceScoreFactor, apc[2]>>, RInt(PriceScoreMax))
        rsi_score == Min2(Abs(rsi_change) * RsiScoreFactor, RsiScoreMax)
        prominence_score ==
            RMin(<<prominence[1] * ProminenceScoreFactor, prominence[2]>>,
                 RInt(ProminenceScoreMax))
        confirmation_score == IF confirmed THEN ConfirmationBonus ELSE 0
        total == RAdd(RAdd(price_score, prominence_score),
                      RInt(rsi_score + confirmation_score))
    IN  Min2(RoundTenths(total), ScoreMax * 10)

_get_quality_label(quality) ==
    IF quality >= 85 * 10 THEN "Excellent"
    ELSE IF quality >= 75 * 10 THEN "Very Good"
    ELSE IF quality >= 65 * 10 THEN "Good"
    ELSE "Fair"

\* the pair of pivots a detector looks at and everything it derives from it
\* before the quality gate
BearishPairOf(d, det, price_peaks) ==
    LET peaks_with_rsi == get_rsi_at_peaks(d, price_peaks)
        n == Len(peaks_with_rsi)
    IN  IF d.len < MinDetectRows \/ Len(price_peaks) < 2 \/ n < 2
        THEN [found |-> FALSE]
        ELSE LET peak1 == peaks_with_rsi[n - 1]
                 peak2 == peaks_with_rsi[n]
                 v == validate_divergence_alignment(det, peak1, peak2, "BEARISH")
                 c == check_price_action_confirms(d, det, "BEARISH", peak2.index)
             IN  [found |-> TRUE, peak1 |-> peak1, peak2 |-> peak2,
                  is_valid |-> v.valid, reason |-> v.reason,
                  is_confirmed |-> c.confirmed,
                  price_change_pct |-> PctOver(peak2.price, peak1.price),
                  rsi_change |-> peak1.rsi - peak2.rsi,
                  quality |-> _calculate_quality_score(
                                 PctOver(peak2.price, peak1.price),
                                 peak1.rsi - peak2.rsi,
                                 RMin(peak1.prominence, peak2.prominence),
                                 c.confirmed)]

\* price_peaks is computed once
BearishPair(d, det) ==
    CHOOSE b \in { BearishPairOf(d, det, price_peaks) :
                     price_peaks \in {find_prominent_peaks(d, det, "high")} } : TRUE

detect_bearish_divergence_gt(d, det) ==
    LET Gate(b) ==
        IF ~b.found THEN None
        ELSE IF ~b.is_valid THEN None
        ELSE IF ~b.is_confirmed /\ det.require_confirmation THEN None
        ELSE IF b.quality <= QualityFloor * 10 THEN None
        ELSE [type |-> "BEARISH",
              peak1_idx |-> b.peak1.index, peak2_idx |-> b.peak2.index,
              price1 |-> b.peak1.price, price2 |-> b.peak2.price,
              rsi1 |-> b.peak1.rsi, rsi2 |-> b.peak2.rsi,
              price_change_pct |-> b.price_change_pct,
              rsi_change |-> b.rsi_change,
              quality |-> b.quality,
              quality_label |-> _get_quality_label(b.quality),
              confirmed |-> b.is_confirmed,
              validation |-> b.reason]
    IN  CHOOSE r \in {Gate(b) : b \in {BearishPair(d, det)}} : TRUE

detect_bearish_divergence(d, det) ==
    LET Gate(b) ==
        IF ~b.found THEN None
        ELSE IF ~b.is_valid THEN None
        ELSE IF ~b.is_confirmed /\ det.require_confirmation THEN None
        ELSE IF b.quality < QualityFloor * 10 THEN None
        ELSE [type |-> "BEARISH",
              peak1_idx |-> b.peak1.index, peak2_idx |-> b.peak2.index,
              price1 |-> b.peak1.price, price2 |-> b.peak2.price,
              rsi1 |-> b.peak1.rsi, rsi2 |-> b.peak2.rsi,
              price_change_pct |-> b.price_change_pct,
              rsi_change |-> b.rsi_change,
              quality |-> b.quality,
              quality_label |-> _get_quality_label(b.quality),
              confirmed |-> b.is_confirmed,
              validation |-> b.reason]
    IN  CHOOSE r \in {Gate(b) : b \in {BearishPair(d, det)}} : TRUE

BullishPairOf(d, det, price_troughs) ==
    LET troughs_with_rsi == get_rsi_at_peaks(d, price_troughs)
        n == Len(troughs_with_rsi)
    IN  IF d.len < MinDetectRows \/ Len(price_troughs) < 2 \/ n < 2
        THEN [found |-> FALSE]
        ELSE LET trough1 == troughs_with_rsi[n - 1]
                 trough2 == troughs_with_rsi[n]
                 price_change_pct == <<100 * (trough1.price - trough2.price), trough1.price>>
                 rsi_change == trough2.rsi - trough1.rsi
                 v == validate_divergence_alignment(det, trough1, trough2, "BULLISH")
                 c == check_price_action_confirms(d, det, "BULLISH", trough2.index)
             IN  [found |-> TRUE, peak1 |-> trough1, peak2 |-> trough2,
                  pattern |-> (trough2.price < trough1.price /\ trough2.rsi > trough1.rsi),
                  rsi_enough |-> ~(Abs(rsi_change) < det.min_rsi_divergence),
                  is_valid |-> v.valid, reason |-> v.reason,
                  is_confirmed |-> c.confirmed,
                  price_change_pct |-> price_change_pct,
                  rsi_change |-> rsi_change,
                  quality |-> _calculate_quality_score(
                                 RAbs(price_change_pct),
                                 Abs(rsi_change),
                                 RMin(trough1.prominence, trough2.prominence),
                                 c.confirmed)]

\* price_troughs is computed once
BullishPair(d, det) ==
    CHOOSE b \in { BullishPairOf(d, det, price_troughs) :
                     price_troughs \in {find_prominent_troughs(d, det, "low")} } : TRUE

detect_bullish_divergence(d, det) ==
    LET Gate(b) ==
        IF ~b.found THEN None
        ELSE IF ~b.pattern THEN None
        ELSE IF ~b.rsi_enough THEN None
        ELSE IF ~b.is_valid THEN None
        ELSE IF ~b.is_confirmed /\ det.require_confirmation THEN None
        ELSE IF b.quality < QualityFloor * 10 THEN None
        ELSE [type |-> "BULLISH",
              peak1_idx |-> b.peak1.index, peak2_idx |-> b.peak2.index,
              price1 |-> b.peak1.price, price2 |-> b.peak2.price,
              rsi1 |-> b.peak1.rsi, rsi2 |-> b.peak2.rsi,
              price_change_pct |-> RAbs(b.price_change_pct),
              rsi_change |-> b.rsi_change,
              quality |-> b.quality,
              quality_label |-> _get_quality_label(b.quality),
              confirmed |-> b.is_confirmed,
              validation |-> b.reason]
    IN  CHOOSE r \in {Gate(b) : b \in {BullishPair(d, det)}} : TRUE

detect_all_divergences(d, det) ==
    LET bullish == detect_bullish_divergence(d, det)
        bearish == detect_bearish_divergence(d, det)
    IN  (IF bullish # None THEN <<bullish>> ELSE <<>>)
        \o (IF bearish # None THEN <<bearish>> ELSE <<>>)

-----------------------------------------------------------------------------
(* analyzer/rsi_sr_detector.py *)

MinReversalRows == 40

RecentRsiRows == 15

TouchLookback == 60

\* an in-zone candle counts as a new touch when it lies more than 3 rows
\* after the touch recorded last
TouchGap == 3

LastTouches == 5

VolumeRows == 20

RecentVolumeRows == 3

MomentumRows == 3

\* 1.5 percent, as a fraction
StrongMomentumPct == <<3, 2>>

StrengthFloor == 50

RECURSIVE SumSeq(_)
SumSeq(q) == IF q = <<>> THEN 0 ELSE Head(q) + SumSeq(Tail(q))

RECURSIVE ISqrtIn(_, _, _)
ISqrtIn(x, lo, hi) ==
    IF lo >= hi THEN lo
    ELSE LET mid == (lo + hi + 1) \div 2
         IN  IF mid * mid <= x THEN ISqrtIn(x, mid, hi) ELSE ISqrtIn(x, lo, mid - 1)

\* the integer part of the square root of x, 0 <= x < 2^30
ISqrt(x) == ISqrtIn(x, 0, 32767)

\* k * sum(v^2) - sum(v)^2: the population variance of the values times k^2
VarianceTimesK2(values) ==
    LET k == Len(values)
    IN  k * SumSeq([i \in 1..k |-> values[i] * values[i]]) - SumSeq(values) * SumSeq(values)

\* np.std(values), the population standard deviation, in thousandths
\* (cut after the third decimal)
Std1000(values) ==
    IF values = <<>> THEN 0
    ELSE ISqrt(VarianceTimesK2(values) * 1000000) \div Len(values)

\* np.std(values) > bound, decided exactly
StdAbove(values, bound) ==
    VarianceTimesK2(values) > bound * bound * Len(values) * Len(values)

InZone(zone, rsi) == zone[1] <= rsi /\ rsi <= zone[2]

RECURSIVE TouchesFrom(_, _, _, _)
TouchesFrom(d, zone, i, touches) ==
    IF i >= d.len THEN touches
    ELSE IF /\ InZone(zone, d.rsi[i])
            /\ (touches = <<>> \/ i - touches[Len(touches)].index > TouchGap)
         THEN TouchesFrom(d, zone, i + 1, Append(touches, [index |-> i, rsi |-> d.rsi[i]]))
         ELSE TouchesFrom(d, zone, i + 1, touches)

_find_rsi_support_touches(d, sr) ==
    TouchesFrom(d, sr.rsi_support_zone, Max2(0, d.len - TouchLookback), <<>>)

_find_rsi_resistance_touches(d, sr) ==
    TouchesFrom(d, sr.rsi_resistance_zone, Max2(0, d.len - TouchLookback), <<>>)

NoTrend == [direction |-> "None"]

_check_price_trend(d, sr, direction) ==
    IF d.len < sr.price_trend_candles THEN NoTrend
    ELSE LET first == d.len - sr.price_trend_candles
             last  == d.len - 1
             start_price == d.close[first]
             end_price == d.close[last]
             percent_change == <<100 * (end_price - start_price), start_price>>
             steps == sr.price_trend_candles - 1
             lower_count ==
                 Cardinality({i \in (first + 1)..last : d.close[i] < d.close[i - 1]})
             higher_count ==
                 Cardinality({i \in (first + 1)..last : d.close[i] > d.close[i - 1]})
         IN  IF /\ direction = "down"
                /\ RLt(percent_change, RInt(-sr.min_price_trend))
                /\ 2 * lower_count > steps
             THEN [direction |-> "down", percent_change |-> percent_change,
                   consistency |-> <<lower_count, steps>>,
                   start_price |-> start_price, end_price |-> end_price]
             ELSE IF /\ direction = "up"
                     /\ RLt(RInt(sr.min_price_trend), percent_change)
                     /\ 2 * higher_count > steps
             THEN [direction |-> "up", percent_change |-> percent_change,
                   consistency |-> <<higher_count, steps>>,
                   start_price |-> start_price, end_price |-> end_price]
             ELSE NoTrend

_check_volume_surge(d, sr) ==
    IF d.len < VolumeRows THEN FALSE
    ELSE LET recent == SumSeq([k \in 1..RecentVolumeRows |-> d.volume[d.len - k]])
             older  == SumSeq([k \in 1..(VolumeRows - RecentVolumeRows) |->
                                  d.volume[d.len - RecentVolumeRows - k]])
         IN  \* mean(recent) > mean(older) * volume_multiplier
             recent * (VolumeRows - RecentVolumeRows) * sr.volume_multiplier[2]
                 > older * sr.volume_multiplier[1] * RecentVolumeRows

_check_price_momentum(d) ==
    IF d.len < 5 THEN "unknown"
    ELSE LET a == d.close[d.len - MomentumRows]
             b == d.close[d.len - 1]
             price_change == <<100 * (b - a), a>>
         IN  IF RLt(price_change, <<-StrongMomentumPct[1], StrongMomentumPct[2]>>)
             THEN "strongly_down"
             ELSE IF RLt(StrongMomentumPct, price_change) THEN "strongly_up"
             ELSE "stabilizing"

TouchPointsEach == 6

TouchScoreMax == 30

VariancePenaltyMax == 10

TrendScoreFactor == 5

TrendScoreMax == 25

BounceBase == 8

BounceScoreFactor == 3

BounceScoreMax == 25

VolumeScore == 20

\* the strength in tenths; price_change is a fraction, bounce an integer,
\* rsi_variance the standard deviation in thousandths
_calculate_support_strength(touches, price_change, bounce, rsi_variance, volume_conf) ==
    LET touch_count == Min2(Len(touches), LastTouches)
        variance_penalty == Min2(rsi_variance * 2, VariancePenaltyMax * 1000)
        touch_score ==
            Max2(0, Min2(touch_count * TouchPointsEach * 1000 - variance_penalty,
                         TouchScoreMax * 1000))
        apc == RAbs(price_change)
        price_score == RMin(<<apc[1] * TrendScoreFactor, apc[2]>>, RInt(TrendScoreMax))
        bounce_score == Max2(0, Min2((bounce - BounceBase) * BounceScoreFactor, BounceScoreMax))
        volume_score == IF volume_conf THEN VolumeScore ELSE 0
        total == RAdd(RAdd(<<touch_score, 1000>>, price_score),
                      RInt(bounce_score + volume_score))
    IN  Min2(RoundTenths(total), ScoreMax * 10)

_calculate_resistance_strength(touches, price_change, rejection, rsi_variance, volume_conf) ==
    LET touch_count == Min2(Len(touches), LastTouches)
        variance_penalty == Min2(rsi_variance * 2, VariancePenaltyMax * 1000)
        touch_score ==
            Max2(0, Min2(touch_count * TouchPointsEach * 1000 - variance_penalty,
                         TouchScoreMax * 1000))
        apc == RAbs(price_change)
        price_score == RMin(<<apc[1] * TrendScoreFactor, apc[2]>>, RInt(TrendScoreMax))
        rejection_score ==
            Max2(0, Min2((rejection - BounceBase) * BounceScoreFactor, BounceScoreMax))
        volume_score == IF volume_conf THEN VolumeScore ELSE 0
        total == RAdd(RAdd(<<touch_score, 1000>>, price_score),
                      RInt(rejection_score + volume_score))
    IN  Min2(RoundTenths(total), ScoreMax * 10)

LastOf(q, k) == SubSeq(q, Max2(1, Len(q) - k + 1), Len(q))

\* what detect_rsi_support_reversal computes on its way to the strength gate
SupportCase(d, sr) ==
    LET current_rsi == d.rsi[d.len - 1]
        min_recent_rsi == SeqMin(d.rsi, d.len - RecentRsiRows, d.len - 1)
        support_touches == _find_rsi_support_touches(d, sr)
        touch_rsi_values ==
            LET t == LastOf(support_touches, LastTouches)
            IN  [k \in 1..Len(t) |-> t[k].rsi]
        price_trend == _check_price_trend(d, sr, "down")
        volume_confirmed == _check_volume_surge(d, sr)
        bounce_strength == current_rsi - min_recent_rsi
        passed ==
            /\ InZone(sr.rsi_support_zone, min_recent_rsi)
            /\ ~(current_rsi <= sr.rsi_support_zone[1])
            /\ ~(current_rsi < min_recent_rsi + sr.rsi_bounce_threshold)
            /\ ~(Len(support_touches) < sr.min_touches)
            /\ ~StdAbove(touch_rsi_values, sr.max_rsi_variance)
            /\ price_trend # NoTrend
            /\ ~RLt(RAbs(price_trend.percent_change), RInt(sr.min_price_trend))
            /\ volume_confirmed
            /\ _check_price_momentum(d) # "strongly_down"
    IN  [passed |-> passed,
         current_rsi |-> current_rsi,
         level |-> min_recent_rsi,
         touches |-> support_touches,
         rsi_variance |-> Std1000(touch_rsi_values),
         move |-> bounce_strength,
         strength |->
             IF passed
             THEN _calculate_support_strength(support_touches,
                      price_trend.percent_change, bounce_strength,
                      Std1000(touch_rsi_values), volume_confirmed)
             ELSE 0]

detect_rsi_support_reversal_le(d, sr) ==
    IF d.len < MinReversalRows THEN None
    ELSE LET c == SupportCase(d, sr)
         IN  IF ~c.passed THEN None
             ELSE IF c.strength <= StrengthFloor * 10 THEN None
             ELSE [type |-> "RSI_SUPPORT_REVERSAL", direction |-> "BULLISH",
                   current_price |-> d.close[d.len - 1],
                   current_rsi |-> c.current_rsi,
                   rsi_level |-> c.level,
                   touches |-> Len(c.touches),
                   rsi_move |-> c.move,
                   rsi_variance |-> c.rsi_variance,
                   strength |-> c.strength,
                   volume_confirmed |-> TRUE]

detect_rsi_support_reversal(d, sr) ==
    IF d.len < MinReversalRows THEN None
    ELSE LET c == SupportCase(d, sr)
         IN  IF ~c.passed THEN None
             ELSE IF c.strength < StrengthFloor * 10 THEN None
             ELSE [type |-> "RSI_SUPPORT_REVERSAL", direction |-> "BULLISH",
                   current_price |-> d.close[d.len - 1],
                   current_rsi |-> c.current_rsi,
                   rsi_level |-> c.level,
                   touches |-> Len(c.touches),
                   rsi_move |-> c.move,
                   rsi_variance |-> c.rsi_variance,
                   strength |-> c.strength,
                   volume_confirmed |-> TRUE]

\* what detect_rsi_resistance_reversal computes on its way to the strength gate
ResistanceCase(d, sr) ==
    LET current_rsi == d.rsi[d.len - 1]
        max_recent_rsi == SeqMax(d.rsi, d.len - RecentRsiRows, d.len - 1)
        resistance_touches == _find_rsi_resistance_touches(d, sr)
        touch_rsi_values ==
            LET t == LastOf(resistance_touches, LastTouches)
            IN  [k \in 1..Len(t) |-> t[k].rsi]
        price_trend == _check_price_trend(d, sr, "up")
        volume_confirmed == _check_volume_surge(d, sr)
        rejection_strength == max_recent_rsi - current_rsi
        passed ==
            /\ InZone(sr.rsi_resistance_zone, max_recent_rsi)
            /\ ~(current_rsi >= sr.rsi_resistance_zone[2])
            /\ ~(current_rsi > max_recent_rsi - sr.rsi_bounce_threshold)
            /\ ~(Len(resistance_touches) < sr.min_touches)
            /\ ~StdAbove(touch_rsi_values, sr.max_rsi_variance)
            /\ price_trend # NoTrend
            /\ ~RLt(RAbs(price_trend.percent_change), RInt(sr.min_price_trend))
            /\ volume_confirmed
            /\ _check_price_momentum(d) # "strongly_up"
    IN  [passed |-> passed,
         current_rsi |-> current_rsi,
         level |-> max_recent_rsi,
         touches |-> resistance_touches,
         rsi_variance |-> Std1000(touch_rsi_values),
         move |-> rejection_strength,
         strength |->
             IF passed
             THEN _calculate_resistance_strength(resistance_touches,
                      price_trend.percent_change, rejection_strength,
                      Std1000(touch_rsi_values), volume_confirmed)
             ELSE 0]

detect_rsi_resistance_reversal(d, sr) ==
    IF d.len < MinReversalRows THEN None
    ELSE LET c == ResistanceCase(d, sr)
         IN  IF ~c.passed THEN None
             ELSE IF c.strength < StrengthFloor * 10 THEN None
             ELSE [type |-> "RSI_RESISTANCE_REVERSAL", direction |-> "BEARISH",
                   current_price |-> d.close[d.len - 1],
                   current_rsi |-> c.current_rsi,
                   rsi_level |-> c.level,
                   touches |-> Len(c.touches),
                   rsi_move |-> c.move,
                   rsi_variance |-> c.rsi_variance,
                   strength |-> c.strength,
                   volume_confirmed |-> TRUE]

detect_all_reversals(d, sr) ==
    LET support_reversal == detect_rsi_support_reversal(d, sr)
        resistance_reversal == detect_rsi_resistance_reversal(d, sr)
    IN  (IF support_reversal # None THEN <<support_reversal>> ELSE <<>>)
        \o (IF resistance_reversal # None THEN <<resistance_reversal>> ELSE <<>>)

-----------------------------------------------------------------------------
(* backtester.py                                                           *)
(*                                                                         *)
(* A candle of the lookahead window is a record [timestamp, high, low,     *)
(* close] of integers; the window is the sequence of its candles in        *)
(* chronological order.  The levels and the profit percentages are exact   *)
(* fractions in lowest terms.                                              *)

\* the defaults of backtest_single_coin
TakeProfitPct == 3

StopLossPct == 2

\* the levels and the direction backtest_single_coin derives from a signal
Levels(signal_type, entry_price, take_profit_pct, stop_loss_pct) ==
    IF signal_type = "BULLISH"
    THEN [tp_price |-> RNorm(<<entry_price * (100 + take_profit_pct), 100>>),
          sl_price |-> RNorm(<<entry_price * (100 - stop_loss_pct), 100>>),
          direction |-> "LONG"]
    ELSE [tp_price |-> RNorm(<<entry_price * (100 - take_profit_pct), 100>>),
          sl_price |-> RNorm(<<entry_price * (100 + stop_loss_pct), 100>>),
          direction |-> "SHORT"]

\* ((a - b) / entry_price) * 100
ProfitPct(a, b, entry_price) ==
    LET diff == RSub(a, b)
    IN  RNorm(<<100 * diff[1], diff[2] * entry_price>>)

CheckCandle_strict(row, bars_held, entry_price, tp_price, sl_price, direction) ==
    IF direction = "LONG"
    THEN IF RLt(tp_price, RInt(row.high))
         THEN [exit_price |-> tp_price, exit_time |-> row.timestamp,
               outcome |-> "WIN",
               profit_pct |-> ProfitPct(tp_price, RInt(entry_price), entry_price),
               bars_held |-> bars_held]
         ELSE IF RLt(RInt(row.low), sl_price)
         THEN [exit_price |-> sl_price, exit_time |-> row.timestamp,
               outcome |-> "LOSS",
               profit_pct |-> ProfitPct(sl_price, RInt(entry_price), entry_price),
               bars_held |-> bars_held]
         ELSE None
    ELSE IF RLt(RInt(row.low), tp_price)
         THEN [exit_price |-> tp_price, exit_time |-> row.timestamp,
               outcome |-> "WIN",
               profit_pct |-> ProfitPct(RInt(entry_price), tp_price, entry_price),
               bars_held |-> bars_held]
         ELSE IF RLt(sl_price, RInt(row.high))
         THEN [exit_price |-> sl_price, exit_time |-> row.timestamp,
               outcome |-> "LOSS",
               profit_pct |-> ProfitPct(RInt(entry_price), sl_price, entry_price),
               bars_held |-> bars_held]
         ELSE None

CheckCandle_slfirst(row, bars_held, entry_price, tp_price, sl_price, direction) ==
    IF direction = "LONG"
    THEN IF RLe(tp_price, RInt(row.high))
         THEN [exit_price |-> tp_price, exit_time |-> row.timestamp,
               outcome |-> "WIN",
               profit_pct |-> ProfitPct(tp_price, RInt(entry_price), entry_price),
               bars_held |-> bars_held]
         ELSE IF RLe(RInt(row.low), sl_price)
         THEN [exit_price |-> sl_price, exit_time |-> row.timestamp,
               outcome |-> "LOSS",
               profit_pct |-> ProfitPct(sl_price, RInt(entry_price), entry_price),
               bars_held |-> bars_held]
         ELSE None
    ELSE IF RLe(sl_price, RInt(row.high))
         THEN [exit_price |-> sl_price, exit_time |-> row.timestamp,
               outcome |-> "LOSS",
               profit_pct |-> ProfitPct(RInt(entry_price), sl_price, entry_price),
               bars_held |-> bars_held]
         ELSE IF RLe(RInt(row.low), tp_price)
         THEN [exit_price |-> tp_price, exit_time |-> row.timestamp,
               outcome |-> "WIN",
               profit_pct |-> ProfitPct(RInt(entry_price), tp_price, entry_price),
               bars_held |-> bars_held]
         ELSE None

\* one pass of the loop over the window: the result the candle decides, or
\* None when the loop goes on to the next candle
CheckCandle(row, bars_held, entry_price, tp_price, sl_price, direction) ==
    IF direction = "LONG"
    THEN IF RLe(tp_price, RInt(row.high))
         THEN [exit_price |-> tp_price, exit_time |-> row.timestamp,
               outcome |-> "WIN",
               profit_pct |-> ProfitPct(tp_price, RInt(entry_price), entry_price),
               bars_held |-> bars_held]
         ELSE IF RLe(RInt(row.low), sl_price)
         THEN [exit_price |-> sl_price, exit_time |-> row.timestamp,
               outcome |-> "LOSS",
               profit_pct |-> ProfitPct(sl_price, RInt(entry_price), entry_price),
               bars_held |-> bars_held]
         ELSE None
    ELSE IF RLe(RInt(row.low), tp_price)
         THEN [exit_price |-> tp_price, exit_time |-> row.timestamp,
               outcome |-> "WIN",
               profit_pct |-> ProfitPct(RInt(entry_price), tp_price, entry_price),
               bars_held |-> bars_held]
         ELSE IF RLe(sl_price, RInt(row.high))
         THEN [exit_price |-> sl_price, exit_time |-> row.timestamp,
               outcome |-> "LOSS",
               profit_pct |-> ProfitPct(RInt(entry_price), sl_price, entry_price),
               bars_held |-> bars_held]
         ELSE None

TimeoutExit_entry(future_df, entry_price, direction) ==
    [exit_price |-> RInt(entry_price),
     exit_time |-> future_df[Len(future_df)].timestamp,
     outcome |-> "TIMEOUT",
     profit_pct |-> RInt(0),
     bars_held |-> Len(future_df)]

\* no candle decided: the exit at the close of the last candle
TimeoutExit(future_df, entry_price, direction) ==
    LET last_price == future_df[Len(future_df)].close
    IN  [exit_price |-> RInt(last_price),
         exit_time |-> future_df[Len(future_df)].timestamp,
         outcome |-> "TIMEOUT",
         profit_pct |->
             IF direction = "LONG"
             THEN ProfitPct(RInt(last_price), RInt(entry_price), entry_price)
             ELSE ProfitPct(RInt(entry_price), RInt(last_price), entry_price),
         bars_held |-> Len(future_df)]

\* the loop over the window from its k-th candle on
RECURSIVE ScanFrom(_, _, _, _, _, _)
ScanFrom(future_df, k, entry_price, tp_price, sl_price, direction) ==
    IF k > Len(future_df)
    THEN TimeoutExit(future_df, entry_price, direction)
    ELSE LET decided == CheckCandle(future_df[k], k, entry_price,
                                    tp_price, sl_price, direction)
         IN  IF decided # None THEN decided
             ELSE ScanFrom(future_df, k + 1, entry_price, tp_price, sl_price,
                           direction)

_simulate_trade_outcome(future_df, entry_price, tp_price, sl_price, direction) ==
    IF future_df = <<>>
    THEN [exit_price |-> RInt(entry_price), exit_time |-> None,
          outcome |-> "TIMEOUT", profit_pct |-> RInt(0), bars_held |-> 0]
    ELSE ScanFrom(future_df, 1, entry_price, tp_price, sl_price, direction)

\* the dictionary backtest_single_coin records for a signal
TradeOf(symbol, signal_type, entry_price, levels, trade_result) ==
    [symbol |-> symbol,
     entry_price |-> entry_price,
     signal_type |-> signal_type,
     direction |-> levels.direction,
     tp_price |-> levels.tp_price,
     sl_price |-> levels.sl_price,
     exit_price |-> trade_result.exit_price,
     exit_time |-> trade_result.exit_time,
     outcome |-> trade_result.outcome,
     profit_pct |-> trade_result.profit_pct,
     bars_held |-> trade_result.bars_held]

WithOutcome(ts, outcome) == SelectSeq(ts, LAMBDA t : t.outcome = outcome)

RECURSIVE SumProfit(_)
SumProfit(ts) ==
    IF ts = <<>> THEN RInt(0)
    ELSE RNorm(RAdd(Head(ts).profit_pct, SumProfit(Tail(ts))))

RECURSIVE SumBars(_)
SumBars(ts) == IF ts = <<>> THEN 0 ELSE Head(ts).bars_held + SumBars(Tail(ts))

\* np.mean of the profit_pct of the trades
MeanProfit(ts) ==
    LET total == SumProfit(ts)
    IN  RNorm(<<total[1], total[2] * Len(ts)>>)

_calculate_statistics_decided(ts) ==
    LET total == Len(ts)
        wins == WithOutcome(ts, "WIN")
        losses == WithOutcome(ts, "LOSS")
        total_profit == SumProfit(wins)
        total_loss == RAbs(SumProfit(losses))
    IN  [total_trades |-> total,
         wins |-> Len(wins),
         losses |-> Len(losses),
         win_rate |-> IF Len(wins) + Len(losses) > 0
                      THEN RNorm(<<100 * Len(wins), Len(wins) + Len(losses)>>)
                      ELSE RInt(0),
         avg_profit |-> IF ts # <<>> THEN MeanProfit(ts) ELSE RInt(0),
         avg_win |-> IF wins # <<>> THEN MeanProfit(wins) ELSE RInt(0),
         avg_loss |-> IF losses # <<>> THEN MeanProfit(losses) ELSE RInt(0),
         profit_factor |-> IF total_loss[1] > 0
                           THEN RDiv(total_profit, total_loss)
                           ELSE RInt(0),
         avg_bars_held |-> IF ts # <<>> THEN RNorm(<<SumBars(ts), Len(ts)>>)
                           ELSE RInt(0),
         total_profit_pct |-> total_profit,
         total_loss_pct |-> total_loss]

_calculate_statistics(ts) ==
    LET total == Len(ts)
        wins == WithOutcome(ts, "WIN")
        losses == WithOutcome(ts, "LOSS")
        total_profit == SumProfit(wins)
        total_loss == RAbs(SumProfit(losses))
    IN  [total_trades |-> total,
         wins |-> Len(wins),
         losses |-> Len(losses),
         win_rate |-> IF total > 0 THEN RNorm(<<100 * Len(wins), total>>)
                      ELSE RInt(0),
         avg_profit |-> IF ts # <<>> THEN MeanProfit(ts) ELSE RInt(0),
         avg_win |-> IF wins # <<>> THEN MeanProfit(wins) ELSE RInt(0),
         avg_loss |-> IF losses # <<>> THEN MeanProfit(losses) ELSE RInt(0),
         profit_factor |-> IF total_loss[1] > 0
                           THEN RDiv(total_profit, total_loss)
                           ELSE RInt(0),
         avg_bars_held |-> IF ts # <<>> THEN RNorm(<<SumBars(ts), Len(ts)>>)
                           ELSE RInt(0),
         total_profit_pct |-> total_profit,
         total_loss_pct |-> total_loss]

RECURSIVE SumField(_, _)
SumField(rs, field) ==
    IF rs = <<>> THEN 0 ELSE Head(rs)[field] + SumField(Tail(rs), field)

RECURSIVE SumFractions(_, _)
SumFractions(rs, field) ==
    IF rs = <<>> THEN RInt(0)
    ELSE RNorm(RAdd(Head(rs)[field], SumFractions(Tail(rs), field)))

\* np.mean of a field of the per-symbol statistics
MeanField(rs, field) ==
    LET total == SumFractions(rs, field)
    IN  RNorm(<<total[1], total[2] * Len(rs)>>)

\* the figures print_summary derives from self.results (not empty)
print_summary(rs) ==
    LET total_trades == SumField(rs, "total_trades")
        total_wins == SumField(rs, "wins")
        total_losses == SumField(rs, "losses")
    IN  [coins |-> Len(rs),
         total_trades |-> total_trades,
         total_wins |-> total_wins,
         total_losses |-> total_losses,
         overall_win_rate |-> IF total_trades > 0
                              THEN RNorm(<<100 * total_wins, total_trades>>)
                              ELSE RInt(0),
         avg_profit |-> MeanField(rs, "avg_profit"),
         avg_profit_factor |-> MeanField(rs, "profit_factor")]

BtIdle ==
    /\ sim = None
    /\ bt_call = None
    /\ coin_trades = <<>>
    /\ trades = <<>>
    /\ results = <<>>
    /\ summary = None

-----------------------------------------------------------------------------
(* config/settings.py, database/db_manager.py and main.py: the alert path  *)
(*                                                                         *)
(* A signal is a record [symbol, timeframe, type, direction, signal_type,  *)
(* strength] of strings and a number; a key the dictionary does not hold   *)
(* is "None".  A row of the table divergences is a record [id, symbol,     *)
(* timeframe, type, strength, alerted, alerted_at].  The clock counts      *)
(* whole hours.                                                            *)

SEND_BULLISH_ALERTS == TRUE

SEND_BEARISH_ALERTS == TRUE

\* process_signals asks is_duplicate_alert(..., hours=2)
CooldownHours == 2

\* None where the other values are strings
NoString == "None"

\* signal.get('type') or signal.get('direction')
SignalType(signal) ==
    IF signal.type # NoString THEN signal.type ELSE signal.direction

save_divergence(rows, divergence) ==
    Append(rows,
           [id |-> Len(rows) + 1,
            symbol |-> divergence.symbol,
            timeframe |-> divergence.timeframe,
            type |-> IF SignalType(divergence) # NoString
                     THEN SignalType(divergence) ELSE "UNKNOWN",
            strength |-> divergence.strength,
            alerted |-> FALSE,
            alerted_at |-> None])

\* cursor.lastrowid after save_divergence
LastRowId(rows) == rows[Len(rows)].id

mark_as_alerted(rows, record_id, t) ==
    [k \in DOMAIN rows |->
        IF rows[k].id = record_id
        THEN [rows[k] EXCEPT !.alerted = TRUE, !.alerted_at = t]
        ELSE rows[k]]

is_duplicate_alert_saved(rows, symbol, timeframe, divergence_type, hours, t) ==
    Cardinality({k \in DOMAIN rows :
                    /\ rows[k].symbol = symbol
                    /\ rows[k].timeframe = timeframe
                    /\ rows[k].type = divergence_type}) > 0

\* t is datetime.now() at the call
is_duplicate_alert(rows, symbol, timeframe, divergence_type, hours, t) ==
    Cardinality({k \in DOMAIN rows :
                    /\ rows[k].symbol = symbol
                    /\ rows[k].timeframe = timeframe
                    /\ rows[k].type = divergence_type
                    /\ rows[k].alerted
                    /\ rows[k].alerted_at > t - hours}) > 0

\* x goes behind the signals at least as strong as it is: the order
\* signals.sort(key=strength, reverse=True) gives, equal strengths keeping
\* their order
InsertByStrength(x, sorted) ==
    SelectSeq(sorted, LAMBDA e : e.strength >= x.strength)
        \o <<x>>
        \o SelectSeq(sorted, LAMBDA e : e.strength < x.strength)

RECURSIVE SortByStrength(_, _)
SortByStrength(signals, n) ==
    IF n = 0 THEN <<>>
    ELSE InsertByStrength(signals[n], SortByStrength(signals, n - 1))

RunnerIdle ==
    [pc |-> "idle", queue |-> <<>>, record_id |-> 0, alerts_sent |-> 0,
     skipped |-> <<>>]

AlertIdle ==
    /\ now = 0
    /\ mode = "production"
    /\ db = <<>>
    /\ runner = RunnerIdle
    /\ sent = <<>>

-----------------------------------------------------------------------------
(* analyzer/data_fetcher.py                                                *)
(*                                                                         *)
(* A call of an exchange's fetch_ohlcv either returns candles ("ok") or    *)
(* raises an error of one of the classes below.                            *)

EXCHANGE == "binance"

max_retries == 3

\* the classes an error is an instance of (ccxt.BaseError derives from
\* Exception)
Classes(error) ==
    CASE error = "RequestTimeout" -> {"RequestTimeout", "NetworkError", "Exception"}
      [] error = "NetworkError"   -> {"NetworkError", "Exception"}
      [] error = "BadSymbol"      -> {"BadSymbol", "ExchangeError", "Exception"}
      [] error = "ExchangeError"  -> {"ExchangeError", "Exception"}
      [] error = "ValueError"     -> {"ValueError", "Exception"}

Errors == {"RequestTimeout", "NetworkError", "BadSymbol", "ExchangeError", "ValueError"}

PrimaryHandler_retry_all(error) ==
    IF "Exception" \in Classes(error) THEN "retry" ELSE "raise"

\* the except clauses of the retry loop, in their order
PrimaryHandler(error) ==
    IF "NetworkError" \in Classes(error) THEN "retry"
    ELSE IF "ExchangeError" \in Classes(error) THEN "break"
    ELSE IF "Exception" \in Classes(error) THEN "retry"
    ELSE "raise"

\* the except clause around the futures fallback
FallbackHandler(error) ==
    IF "Exception" \in Classes(error) THEN "give_up" ELSE "raise"

\* what a call of the exchange can do for the symbol: a symbol the market
\* does not list is refused with BadSymbol once the markets are known
Outcomes(listed) ==
    IF listed THEN {"ok"} \cup Errors
    ELSE {"BadSymbol", "RequestTimeout", "NetworkError"}

DataFrame(market) == [type |-> "DataFrame", market |-> market]

Pending == [type |-> "pending"]

FetchNotCalled ==
    [pc |-> "not_called", attempt |-> 0, calls |-> <<>>, fallback |-> <<>>,
     result |-> Pending, raised |-> FALSE]

FetchIdle ==
    /\ request = None
    /\ fetch = FetchNotCalled

-----------------------------------------------------------------------------
(* analyzer/multi_timeframe.py *)

\* get_trend_direction(df, ema_period=50)
EmaPeriod == 50

\* the series must hold ema_period + 10 rows
EmaSpare == 10

\* the slope of the EMA is taken between the last row and the 10th from last
SlopeRows == 10

\* the price must stand 2 % off the EMA: 1.02 = 51/50, 0.98 = 49/50
TrendBandUp == <<51, 50>>

TrendBandDown == <<49, 50>>

RMul(a, b) == <<a[1] * b[1], a[2] * b[2]>>

\* EMAIndicator(close, window).ema_indicator(): close.ewm(span=window,
\* adjust=False).mean(), y[0] = x[0], y[i] = (1 - a) y[i-1] + a x[i] with
\* a = 2 / (window + 1)
RECURSIVE EmaAt(_, _, _)
EmaAt(close, window, i) ==
    IF i = 0 THEN RInt(close[0])
    ELSE LET Step(prev) ==
                 RNorm(<<(window - 1) * prev[1] + 2 * close[i] * prev[2],
                         (window + 1) * prev[2]>>)
         IN  CHOOSE y \in {Step(prev) : prev \in {EmaAt(close, window, i - 1)}} : TRUE

TrendOf(current_price, current_ema, ema_slope) ==
    IF RLt(RMul(current_ema, TrendBandUp), RInt(current_price))
          /\ RLt(RInt(0), ema_slope)
    THEN "UPTREND"
    ELSE IF RLt(RInt(current_price), RMul(current_ema, TrendBandDown))
               /\ RLt(ema_slope, RInt(0))
    THEN "DOWNTREND"
    ELSE "SIDEWAYS"

get_trend_direction(d, ema_period) ==
    IF d.len < ema_period + EmaSpare THEN "UNKNOWN"
    ELSE LET Trend(current_ema, earlier_ema) ==
                 TrendOf(d.close[d.len - 1], current_ema,
                         RNorm(RMul(RDiv(RSub(current_ema, earlier_ema), earlier_ema),
                                    RInt(100))))
         IN  CHOOSE t \in { Trend(e[1], e[2]) :
                              e \in {<<EmaAt(d.close, ema_period, d.len - 1),
                                       EmaAt(d.close, ema_period, d.len - SlopeRows)>>} } : TRUE

\* the same table read the other way round: a divergence confirmed by a
\* trend in its own direction
_evaluate_confirmation_swapped(divergence_type, higher_trend) ==
    IF divergence_type = "BULLISH"
    THEN IF higher_trend = "UPTREND"
         THEN [confirmed |-> TRUE, confidence |-> "HIGH",
               recommendation |-> "TAKE SIGNAL - Reversal setup"]
         ELSE IF higher_trend = "SIDEWAYS"
         THEN [confirmed |-> TRUE, confidence |-> "MEDIUM",
               recommendation |-> "TAKE SIGNAL - Range reversal"]
         ELSE [confirmed |-> FALSE, confidence |-> "LOW",
               recommendation |-> "SKIP - Already in uptrend"]
    ELSE IF higher_trend = "DOWNTREND"
         THEN [confirmed |-> TRUE, confidence |-> "HIGH",
               recommendation |-> "TAKE SIGNAL - Reversal setup"]
         ELSE IF higher_trend = "SIDEWAYS"
         THEN [confirmed |-> TRUE, confidence |-> "MEDIUM",
               recommendation |-> "TAKE SIGNAL - Range reversal"]
         ELSE [confirmed |-> FALSE, confidence |-> "LOW",
               recommendation |-> "SKIP - Already in downtrend"]

_evaluate_confirmation(divergence_type, higher_trend) ==
    IF divergence_type = "BULLISH"
    THEN IF higher_trend = "DOWNTREND"
         THEN [confirmed |-> TRUE, confidence |-> "HIGH",
               recommendation |-> "TAKE SIGNAL - Reversal setup"]
         ELSE IF higher_trend = "SIDEWAYS"
         THEN [confirmed |-> TRUE, confidence |-> "MEDIUM",
               recommendation |-> "TAKE SIGNAL - Range reversal"]
         ELSE [confirmed |-> FALSE, confidence |-> "LOW",
               recommendation |-> "SKIP - Already in uptrend"]
    ELSE IF higher_trend = "UPTREND"
         THEN [confirmed |-> TRUE, confidence |-> "HIGH",
               recommendation |-> "TAKE SIGNAL - Reversal setup"]
         ELSE IF higher_trend = "SIDEWAYS"
         THEN [confirmed |-> TRUE, confidence |-> "MEDIUM",
               recommendation |-> "TAKE SIGNAL - Range reversal"]
         ELSE [confirmed |-> FALSE, confidence |-> "LOW",
               recommendation |-> "SKIP - Already in downtrend"]

\* check_mtf_confirmation once both tables are fetched; None stands for a
\* table fetch_ohlcv could not deliver and for the return value None
check_mtf_confirmation(det, symbol, signal_df, higher_df) ==
    IF signal_df = None \/ higher_df = None THEN None
    ELSE LET Results(found, higher_trend) ==
                 IF found = <<>> THEN None
                 ELSE [type |-> "results",
                       rows |-> [k \in 1..Len(found) |->
                           LET conf ==
                                   _evaluate_confirmation(found[k].type, higher_trend)
                           IN  [symbol |-> symbol,
                                divergence_type |-> found[k].type,
                                higher_trend |-> higher_trend,
                                confirmed |-> conf.confirmed,
                                confidence |-> conf.confidence,
                                recommendation |-> conf.recommendation,
                                divergence_details |-> found[k]]]]
         IN  CHOOSE r \in { Results(x[1], x[2]) :
                              x \in {<<detect_all_divergences(signal_df, det),
                                       get_trend_direction(higher_df, EmaPeriod)>>} } : TRUE

\* no scan_with_mtf_filter is running
MtfIdle ==
    [pc |-> "idle", symbols |-> <<>>, higher_df |-> None, results |-> None,
     confirmed_signals |-> <<>>, returned |-> None]

-----------------------------------------------------------------------------
(* The tables the divergence detector is run on.                           *)
(*                                                                         *)
(* A table holds a level price `base` with two pivots of height h1 and h2  *)
(* (peaks of the high column, or troughs of the low column) at positions   *)
(* i1 and i2, the RSI values r1 and r2 at the pivots, optionally a second  *)
(* candle as high (low) as the second pivot right after it (a plateau),    *)
(* and `nconf` closes beyond the pivot's close among the three candles     *)
(* that follow the second pivot.                                           *)

\* the tail of the table after the second pivot is EdgeSkip + 0 .. MaxTail rows
MaxTail == 1

\* the first pivot sits at position EdgeSkip - 1 + 0 .. MaxLead, or at FarLead
MaxLead == 1

FarLead == 20

\* distances between the two pivots
Gaps == {4, 5, 10, 50, 51}

\* <<base, h1, h2>>
Shapes ==
    { <<300, 7, 15>>, <<300, 10, 16>>, <<300, 6, 20>>, <<300, 5, 20>>,
      <<300, 15, 7>>, <<300, 12, 16>>, <<300, 20, 40>>,
      <<392, 8, 10>>, <<392, 8, 9>>, <<210, 10, 11>> }

\* RSI at the first pivot, and by how much it moves against the price
RsiAtFirst == 60

RsiMid == 50

RsiMoves == {-5, 4, 5, 10}

Volume == 1000

MkDf(kind, n, i1, i2, shape, dr, plateau, nconf) ==
    LET sign == IF kind = "peaks" THEN 1 ELSE -1
        base == shape[1]
        col  == [i \in 0..(n - 1) |->
                    IF i = i1 THEN base + sign * shape[2]
                    ELSE IF i = i2 \/ (plateau /\ i = i2 + 1)
                         THEN base + sign * shape[3]
                    ELSE base]
        flat == [i \in 0..(n - 1) |-> base - 2 * sign]
    IN  [len    |-> n,
         high   |-> IF kind = "peaks" THEN col ELSE flat,
         low    |-> IF kind = "peaks" THEN flat ELSE col,
         close  |-> [i \in 0..(n - 1) |->
                        IF i > i2 /\ i <= i2 + nconf THEN base - sign ELSE base],
         rsi    |-> [i \in 0..(n - 1) |->
                        IF i = i1 THEN RsiAtFirst
                        ELSE IF i = i2 THEN RsiAtFirst - sign * dr
                        ELSE RsiMid],
         volume |-> [i \in 0..(n - 1) |-> Volume]]

DivTables ==
    { MkDf(kind, i1 + gap + EdgeSkip + tail, i1, i1 + gap, shape, dr, plateau, nconf) :
        kind \in {"peaks", "troughs"},
        i1 \in {EdgeSkip - 1 + k : k \in 0..MaxLead} \cup {FarLead},
        gap \in Gaps,
        tail \in 0..MaxTail,
        shape \in Shapes,
        dr \in RsiMoves,
        plateau \in BOOLEAN,
        nconf \in 1..MinConfirming }

\* the detector main.py builds, and the same one without confirmation
Detectors ==
    { [min_peak_prominence |-> 2, min_rsi_divergence |-> 5,
       lookback_candles |-> 50, require_confirmation |-> rc,
       min_time_between_peaks |-> 5] : rc \in BOOLEAN }

\* the support/resistance detector main.py builds; volume_multiplier 1.1 = 11/10
SRDetector ==
    [rsi_support_zone |-> <<28, 38>>, rsi_resistance_zone |-> <<62, 72>>,
     min_touches |-> 3, price_trend_candles |-> 7, min_price_trend |-> 2,
     rsi_bounce_threshold |-> 8, volume_multiplier |-> <<11, 10>>,
     max_rsi_variance |-> 5]

\* no method has been called directly yet
RunIdle ==
    /\ replay = <<>>
    /\ bot = None
    /\ opt = None
    /\ walk = None
    /\ scheduled = None
    /\ scanner = None

ExtIdle ==
    /\ confirmation = None
    /\ score = [previous |-> None, last |-> None]
    /\ mtf = MtfIdle
    /\ RunIdle

DetIdle ==
    /\ op = "idle"
    /\ sr_detector = SRDetector
    /\ pivots = <<>>
    /\ divergences = <<>>
    /\ reversals = <<>>

InitDiv ==
    /\ df \in DivTables
    /\ detector \in Detectors
    /\ DetIdle
    /\ BtIdle
    /\ AlertIdle
    /\ FetchIdle
    /\ ExtIdle

CallFindProminentPeaks ==
    /\ op = "idle"
    /\ op' = "find_prominent_peaks"
    /\ pivots' = find_prominent_peaks(df, detector, "high")
    /\ UNCHANGED <<df, detector, divergences, sr_detector, reversals>>
    /\ UNCHANGED <<btVars, alertVars, fetchVars, extVars>>

CallFindProminentTroughs ==
    /\ op = "idle"
    /\ op' = "find_prominent_troughs"
    /\ pivots' = find_prominent_troughs(df, detector, "low")
    /\ UNCHANGED <<df, detector, divergences, sr_detector, reversals>>
    /\ UNCHANGED <<btVars, alertVars, fetchVars, extVars>>

CallDetectAllDivergences ==
    /\ op = "idle"
    /\ op' = "detect_all_divergences"
    /\ divergences' = detect_all_divergences(df, detector)
    /\ UNCHANGED <<df, detector, pivots, sr_detector, reversals>>
    /\ UNCHANGED <<btVars, alertVars, fetchVars, extVars>>

NextDiv ==
    \/ CallFindProminentPeaks
    \/ CallFindProminentTroughs
    \/ CallDetectAllDivergences

SpecDiv == InitDiv /\ [][NextDiv]_vars

-----------------------------------------------------------------------------
(* The tables the support/resistance detector is run on.                   *)
(*                                                                         *)
(* RSI rests at RsiMid and visits the zone at the rows a touch pattern     *)
(* names (counted back from the last row); the last row's RSI stands       *)
(* `bounce` points off the pattern's level; the last seven closes follow a *)
(* price pattern off the level price; the last three volumes are `vol`.    *)
(* The resistance tables are the support tables mirrored.                  *)

\* tables longer than the touch lookback: TouchLookback + 2 + 0 .. MaxLong rows
MaxLong == 0

LevelPrice == 500

\* [level: the lowest RSI of the last 15 rows, at: <<rows back, RSI>>, ...]
TouchPatterns ==
    { [level |-> 31, at |-> << <<30, 31>>, <<20, 31>>, <<10, 31>> >>],
      [level |-> 31, at |-> << <<20, 31>>, <<10, 31>> >>],
      [level |-> 31, at |-> << <<30, 31>>, <<20, 31>>, <<12, 31>>, <<11, 31>>, <<10, 31>> >>],
      [level |-> 30, at |-> << <<35, 30>>, <<28, 36>>, <<20, 36>>, <<10, 30>> >>],
      [level |-> 31, at |-> << <<30, 31>>, <<20, 32>>, <<10, 31>> >>],
      [level |-> 31, at |-> << <<14, 31>>, <<10, 31>>, <<6, 31>> >>],
      [level |-> 31, at |-> << <<13, 31>>, <<10, 31>>, <<7, 31>> >>],
      [level |-> 31, at |-> << <<61, 31>>, <<20, 31>>, <<10, 31>> >>],
      [level |-> 31, at |-> << <<18, 31>>, <<17, 31>>, <<16, 31>>, <<15, 31>>,
                               <<14, 31>>, <<13, 31>>, <<12, 31>>, <<11, 31>>,
                               <<10, 31>> >>] }

Bounces == {7, 8, 9, 17}

\* the last seven closes, as steps below the level price
PricePatterns ==
    { <<0, 2, 4, 6, 8, 10, 12>>,
      <<0, 2, 4, 6, 8, 9, 11>>,
      <<0, 2, 4, 6, 8, 9, 10>>,
      <<0, 12, 10, 12, 10, 12, 12>>,
      <<0, 1, 2, 3, 4, 5, 14>>,
      <<0, 10, 20, 26, 28, 29, 30>> }

BaseVolume == 100

RecentVolumes == {110, 111}

MkSR(kind, n, pattern, bounce, prices, vol) ==
    LET mirror(r) == IF kind = "support" THEN r ELSE 100 - r
        sign == IF kind = "support" THEN -1 ELSE 1
        touched(i) == {k \in 1..Len(pattern.at) : n - 1 - pattern.at[k][1] = i}
    IN  [len    |-> n,
         high   |-> [i \in 0..(n - 1) |-> LevelPrice + 40],
         low    |-> [i \in 0..(n - 1) |-> LevelPrice - 40],
         close  |-> [i \in 0..(n - 1) |->
                        IF i >= n - Len(prices)
                        THEN LevelPrice + sign * prices[i - (n - Len(prices)) + 1]
                        ELSE LevelPrice],
         rsi    |-> [i \in 0..(n - 1) |->
                        IF i = n - 1 THEN mirror(pattern.level + bounce)
                        ELSE IF touched(i) # {}
                        THEN mirror(pattern.at[CHOOSE k \in touched(i) : TRUE][2])
                        ELSE RsiMid],
         volume |-> [i \in 0..(n - 1) |->
                        IF i >= n - RecentVolumeRows THEN vol ELSE BaseVolume]]

SRTables ==
    { MkSR(kind, n, pattern, bounce, prices, vol) :
        kind \in {"support", "resistance"},
        n \in {MinReversalRows - 1, MinReversalRows}
                \cup {TouchLookback + 2 + k : k \in 0..MaxLong},
        pattern \in TouchPatterns,
        bounce \in Bounces,
        prices \in PricePatterns,
        vol \in RecentVolumes }

MainDetector == CHOOSE det \in Detectors : det.require_confirmation

InitSR ==
    /\ df \in SRTables
    /\ detector = MainDetector
    /\ DetIdle
    /\ BtIdle
    /\ AlertIdle
    /\ FetchIdle
    /\ ExtIdle

CallDetectAllReversals ==
    /\ op = "idle"
    /\ op' = "detect_all_reversals"
    /\ reversals' = detect_all_reversals(df, sr_detector)
    /\ UNCHANGED <<df, detector, pivots, divergences, sr_detector>>
    /\ UNCHANGED <<btVars, alertVars, fetchVars, extVars>>

NextSR == CallDetectAllReversals

SpecSR == InitSR /\ [][NextSR]_vars

-----------------------------------------------------------------------------
(* Claims about the divergence detector, checked under SpecDiv *)

Emitted(type) ==
    {k \in 1..Len(divergences) : divergences[k].type = type}

PairOf(type) ==
    IF type = "BEARISH" THEN BearishPair(df, detector) ELSE BullishPair(df, detector)

Types == {"BEARISH", "BULLISH"}

SignsHold(type, price1, price2, rsi1, rsi2) ==
    IF type = "BEARISH"
    THEN price2 > price1 /\ rsi2 < rsi1
    ELSE price2 < price1 /\ rsi2 > rsi1

\* C1: every divergence the detectors return has the strict signs of its
\* type (BEARISH: price2 > price1 and rsi2 < rsi1; BULLISH: price2 < price1
\* and rsi2 > rsi1), its fields are those of the last two pivots, and a pair
\* of pivots that breaks either inequality yields no signal.
C1_DirectionalSigns ==
    op = "detect_all_divergences" =>
        /\ \A k \in 1..Len(divergences) :
              LET s == divergences[k]
              IN  /\ s.type \in Types
                  /\ SignsHold(s.type, s.price1, s.price2, s.rsi1, s.rsi2)
        /\ \A t \in Types :
              LET b == PairOf(t)
              IN  /\ Emitted(t) # {} =>
                        /\ b.found
                        /\ \A k \in Emitted(t) :
                              /\ divergences[k].price1 = b.peak1.price
                              /\ divergences[k].price2 = b.peak2.price
                              /\ divergences[k].rsi1 = b.peak1.rsi
                              /\ divergences[k].rsi2 = b.peak2.rsi
                  /\ (b.found /\ ~SignsHold(t, b.peak1.price, b.peak2.price,
                                            b.peak1.rsi, b.peak2.rsi))
                        => Emitted(t) = {}

C1_Witness ==
    /\ op = "detect_all_divergences"
    /\ Emitted("BEARISH") # {}
    /\ detector.require_confirmation

\* every gate before the score let the pair through
PassedGates(type) ==
    LET b == PairOf(type)
    IN  /\ b.found
        /\ b.is_valid
        /\ type = "BULLISH" => (b.pattern /\ b.rsi_enough)
        /\ ~(~b.is_confirmed /\ detector.require_confirmation)

\* C2: no divergence is emitted with a quality below 60, and a pair that
\* passed every validation gate is emitted exactly when its score, computed
\* first, is at least 60.0 (59.9 is dropped, 60.0 is kept).
C2_QualityFloor ==
    op = "detect_all_divergences" =>
        /\ \A k \in 1..Len(divergences) : divergences[k].quality >= QualityFloor * 10
        /\ \A t \in Types :
              PassedGates(t) =>
                 /\ Emitted(t) # {} <=> PairOf(t).quality >= QualityFloor * 10
                 /\ \A k \in Emitted(t) : divergences[k].quality = PairOf(t).quality

C2_Witness ==
    /\ op = "detect_all_divergences"
    /\ \E k \in 1..Len(divergences) :
          /\ divergences[k].type = "BEARISH"
          /\ divergences[k].quality = QualityFloor * 10

\* a pair one tenth under the floor passed every gate and was dropped
C2_JustBelow ==
    /\ op = "detect_all_divergences"
    /\ PassedGates("BEARISH")
    /\ PairOf("BEARISH").quality = QualityFloor * 10 - 1
    /\ divergences = <<>>

Neighbours(i, n) ==
    {j \in (i - PivotOrder)..(i + PivotOrder) : j # i /\ j >= 0 /\ j < n}

\* C9: a peak returned by find_prominent_peaks is strictly above every value
\* within `order` positions on each side, a trough returned by
\* find_prominent_troughs strictly below; an equal neighbour rules a pivot out.
C9_StrictPivots ==
    /\ op = "find_prominent_peaks" =>
          \A k \in 1..Len(pivots) :
              /\ pivots[k].value = df.high[pivots[k].index]
              /\ \A j \in Neighbours(pivots[k].index, df.len) :
                    df.high[pivots[k].index] > df.high[j]
    /\ op = "find_prominent_troughs" =>
          \A k \in 1..Len(pivots) :
              /\ pivots[k].value = df.low[pivots[k].index]
              /\ \A j \in Neighbours(pivots[k].index, df.len) :
                    df.low[pivots[k].index] < df.low[j]

HasPlateau(col) ==
    \E i \in 0..(df.len - 2) :
        /\ col[i] = col[i + 1]
        /\ \A j \in Neighbours(i, df.len) : col[i] >= col[j]
        /\ \E j \in Neighbours(i, df.len) : col[i] > col[j]

\* a table with a plateau on top, of which one peak (the other one) is returned
C9_Witness ==
    /\ op = "find_prominent_peaks"
    /\ HasPlateau(df.high)
    /\ Len(pivots) = 1

\* C10: every emitted divergence rests on a pair of pivots whose distance
\* lies in [min_time_between_peaks, lookback_candles], both ends included,
\* whose price change is at least 0.5 % and whose RSI change is at least
\* min_rsi_divergence; a pair that fails one of the three yields no signal.
GatesHold(i1, i2, price1, price2, rsi1, rsi2) ==
    /\ Abs(i2 - i1) >= detector.min_time_between_peaks
    /\ Abs(i2 - i1) <= detector.lookback_candles
    /\ RLe(MinPriceChangePct, RAbs(PctOver(price2, price1)))
    /\ Abs(rsi2 - rsi1) >= detector.min_rsi_divergence

C10_PairGates ==
    op = "detect_all_divergences" =>
        /\ \A k \in 1..Len(divergences) :
              LET s == divergences[k]
              IN  GatesHold(s.peak1_idx, s.peak2_idx, s.price1, s.price2, s.rsi1, s.rsi2)
        /\ \A t \in Types :
              LET b == PairOf(t)
              IN  /\ \A k \in Emitted(t) :
                        /\ b.found
                        /\ divergences[k].peak1_idx = b.peak1.index
                        /\ divergences[k].peak2_idx = b.peak2.index
                  /\ (b.found /\ ~GatesHold(b.peak1.index, b.peak2.index,
                                            b.peak1.price, b.peak2.price,
                                            b.peak1.rsi, b.peak2.rsi))
                        => Emitted(t) = {}

\* a signal whose pivots are exactly lookback_candles apart
C10_Witness ==
    /\ op = "detect_all_divergences"
    /\ \E k \in 1..Len(divergences) :
          divergences[k].peak2_idx - divergences[k].peak1_idx = detector.lookback_candles

C10_AtMinDistance ==
    /\ op = "detect_all_divergences"
    /\ \E k \in 1..Len(divergences) :
          /\ divergences[k].peak2_idx - divergences[k].peak1_idx = detector.min_time_between_peaks
          /\ REq(RAbs(PctOver(divergences[k].price2, divergences[k].price1)),
                 MinPriceChangePct)

-----------------------------------------------------------------------------
(* Claims about the support/resistance detector, checked under SpecSR *)

ReversalsOf(direction) ==
    {k \in 1..Len(reversals) : reversals[k].direction = direction}

CaseOf(direction) ==
    IF direction = "BULLISH" THEN SupportCase(df, sr_detector)
    ELSE ResistanceCase(df, sr_detector)

\* C3: no reversal is emitted with a strength below 50, and when every other
\* filter passes a reversal is emitted exactly when its strength is at
\* least 50.0.
C3_StrengthFloor ==
    op = "detect_all_reversals" =>
        /\ \A k \in 1..Len(reversals) : reversals[k].strength >= StrengthFloor * 10
        /\ \A dir \in {"BULLISH", "BEARISH"} :
              (df.len >= MinReversalRows /\ CaseOf(dir).passed) =>
                  /\ ReversalsOf(dir) # {} <=> CaseOf(dir).strength >= StrengthFloor * 10
                  /\ \A k \in ReversalsOf(dir) :
                        reversals[k].strength = CaseOf(dir).strength

\* a support reversal of strength exactly 50.0
C3_Witness ==
    /\ op = "detect_all_reversals"
    /\ \E k \in 1..Len(reversals) :
          /\ reversals[k].direction = "BULLISH"
          /\ reversals[k].strength = StrengthFloor * 10

\* every other filter passed and the strength gate alone dropped the signal
C3_DroppedByStrength ==
    /\ op = "detect_all_reversals"
    /\ df.len >= MinReversalRows
    /\ CaseOf("BEARISH").passed
    /\ CaseOf("BEARISH").strength < StrengthFloor * 10
    /\ reversals = <<>>

-----------------------------------------------------------------------------
(* The lookahead windows the trade simulator is run on.                    *)
(*                                                                         *)
(* backtest_single_coin hands _simulate_trade_outcome the 20 candles that  *)
(* follow the signal; the windows here hold 0 .. MaxWindow candles, each   *)
(* of one of the shapes below, given in percent of the entry price.        *)

MaxWindow == 3

EntryPrices == {100, 200}

\* <<take_profit_pct, stop_loss_pct>>: the defaults, and a second pair
Percentages == {<<TakeProfitPct, StopLossPct>>, <<StopLossPct, TakeProfitPct>>}

\* <<high, low, close>> of a candle, in percent above the entry price
CandleShapes ==
    { <<1, -1, 0>>, <<3, 0, 2>>, <<0, -3, -2>>, <<3, -3, 0>>,
      <<2, -1, 1>>, <<1, -2, -1>> }

Candle(entry_price, shape, k) ==
    [timestamp |-> k,
     high  |-> (entry_price * (100 + shape[1])) \div 100,
     low   |-> (entry_price * (100 + shape[2])) \div 100,
     close |-> (entry_price * (100 + shape[3])) \div 100]

WindowsOfLength(entry_price, n, shapes) ==
    { [k \in 1..n |-> Candle(entry_price, f[k], k)] : f \in [1..n -> shapes] }

Windows(entry_price) ==
    UNION { WindowsOfLength(entry_price, n, CandleShapes) : n \in 0..MaxWindow }

DetQuiet ==
    /\ df = None
    /\ detector = MainDetector
    /\ DetIdle

\* the levels backtest_single_coin computes for a signal, and the call of
\* _simulate_trade_outcome with them
SimCall(signal_type, entry_price, take_profit_pct, stop_loss_pct, future_df) ==
    LET Call(levels) ==
            [future_df |-> future_df,
             entry_price |-> entry_price,
             signal_type |-> signal_type,
             take_profit_pct |-> take_profit_pct,
             stop_loss_pct |-> stop_loss_pct,
             tp_price |-> levels.tp_price,
             sl_price |-> levels.sl_price,
             direction |-> levels.direction,
             result |-> _simulate_trade_outcome(future_df, entry_price,
                            levels.tp_price, levels.sl_price, levels.direction)]
    IN  CHOOSE r \in { Call(levels) :
                         levels \in {Levels(signal_type, entry_price,
                                            take_profit_pct, stop_loss_pct)} } : TRUE

InitSim ==
    /\ DetQuiet
    /\ BtIdle
    /\ AlertIdle
    /\ FetchIdle
    /\ ExtIdle

CallSimulateTradeOutcome ==
    /\ sim = None
    /\ \E signal_type \in {"BULLISH", "BEARISH"}, entry_price \in EntryPrices,
          pct \in Percentages :
          \E future_df \in Windows(entry_price) :
              sim' = SimCall(signal_type, entry_price, pct[1], pct[2], future_df)
    /\ UNCHANGED <<bt_call, coin_trades, trades, results, summary>>
    /\ UNCHANGED <<detVars, alertVars, fetchVars, extVars>>

NextSim == CallSimulateTradeOutcome

SpecSim == InitSim /\ [][NextSim]_vars

-----------------------------------------------------------------------------
(* The backtest: backtest_single_coin for one symbol after the other, and  *)
(* print_summary.                                                          *)

\* at most this many signals are traded in all
MaxTrades == 3

Symbols == {"BTC/USDT", "ETH/USDT"}

BacktestEntries == {100}

\* a quiet candle, one that rises by 3 %, one that falls by 3 %, one that
\* rises by 2 %
BacktestShapes == { <<1, -1, 0>>, <<3, 0, 2>>, <<0, -3, -2>>, <<2, -1, 1>> }

InitBacktest ==
    /\ DetQuiet
    /\ BtIdle
    /\ AlertIdle
    /\ FetchIdle
    /\ ExtIdle

\* backtest_single_coin is called
BacktestBegin ==
    /\ bt_call = None
    /\ \E symbol \in Symbols :
          bt_call' = [symbol |-> symbol, timeframe |-> "15m"]
    /\ coin_trades' = <<>>
    /\ UNCHANGED <<sim, trades, results, summary>>
    /\ UNCHANGED <<detVars, alertVars, fetchVars, extVars>>

\* one signal of the walk: its levels, its simulated outcome, its record
BacktestSignal ==
    /\ bt_call # None
    /\ Len(trades) < MaxTrades
    /\ \E signal_type \in {"BULLISH", "BEARISH"},
          entry_price \in BacktestEntries :
          \E future_df \in WindowsOfLength(entry_price, 1, BacktestShapes) :
          \E call \in {SimCall(signal_type, entry_price, TakeProfitPct,
                               StopLossPct, future_df)} :
              \E trade \in {TradeOf(bt_call.symbol, signal_type, entry_price,
                                    call, call.result)} :
                  /\ sim' = call
                  /\ coin_trades' = Append(coin_trades, trade)
                  /\ trades' = Append(trades, trade)
    /\ UNCHANGED <<bt_call, results, summary>>
    /\ UNCHANGED <<detVars, alertVars, fetchVars, extVars>>

\* the walk is over: the statistics of the symbol, if it traded at all
BacktestEnd ==
    /\ bt_call # None
    /\ results' =
          IF coin_trades # <<>>
          THEN Append(results,
                      _calculate_statistics(coin_trades)
                          @@ [symbol |-> bt_call.symbol,
                             timeframe |-> bt_call.timeframe])
          ELSE results
    /\ bt_call' = None
    /\ coin_trades' = <<>>
    /\ UNCHANGED <<sim, trades, summary>>
    /\ UNCHANGED <<detVars, alertVars, fetchVars, extVars>>

PrintSummary ==
    /\ bt_call = None
    /\ results # <<>>
    /\ summary' = print_summary(results)
    /\ UNCHANGED <<sim, bt_call, coin_trades, trades, results>>
    /\ UNCHANGED <<detVars, alertVars, fetchVars, extVars>>

NextBacktest ==
    \/ BacktestBegin
    \/ BacktestSignal
    \/ BacktestEnd
    \/ PrintSummary

SpecBacktest == InitBacktest /\ [][NextBacktest]_vars

-----------------------------------------------------------------------------
(* The alert path: process_signals, one call after the other, while the    *)
(* clock runs.  A call is suspended where the code awaits: in              *)
(* send_message and in asyncio.sleep.                                      *)

\* the clock stops here
MaxHours == 3

\* signals handed to one call of process_signals
MaxBatch == 2

\* rows the table holds at most
MaxRows == 3

Signals ==
    { [symbol |-> "BTC/USDT", timeframe |-> "15m", type |-> "BULLISH",
       direction |-> NoString, signal_type |-> "DIVERGENCE", strength |-> 700],
      [symbol |-> "BTC/USDT", timeframe |-> "15m", type |-> "RSI_SUPPORT_REVERSAL",
       direction |-> "BULLISH", signal_type |-> "RSI_REVERSAL", strength |-> 500] }

Batches == UNION { [1..n -> Signals] : n \in 1..MaxBatch }

\* the signals a call of process_signals has not come to yet (r is None
\* where no second call exists)
Queued(r) == IF r = None THEN 0 ELSE Len(r.queue)

\* the alert of the row record_id, once send_message is over
Delivery(alerts, record_id, delivered) ==
    [k \in DOMAIN alerts |->
        IF alerts[k].record_id = record_id
        THEN [alerts[k] EXCEPT !.delivered = IF delivered THEN "delivered"
                                                 ELSE "failed"]
        ELSE alerts[k]]

InitAlert ==
    /\ DetQuiet
    /\ BtIdle
    /\ FetchIdle
    /\ ExtIdle
    /\ now = 0
    /\ mode \in {"production", "test"}
    /\ db = <<>>
    /\ runner = RunnerIdle
    /\ sent = <<>>

Tick ==
    /\ now < MaxHours
    /\ now' = now + 1
    /\ UNCHANGED <<mode, db, runner, sent>>
    /\ UNCHANGED <<detVars, btVars, fetchVars, extVars>>

\* process_signals is called: the signals are sorted, strongest first
ProcessSignalsBegin ==
    /\ runner.pc = "idle"
    /\ \E signals \in Batches :
          /\ Len(db) + Queued(scheduled) + Len(signals) <= MaxRows
          /\ runner' = [pc |-> "loop",
                        queue |-> SortByStrength(signals, Len(signals)),
                        record_id |-> 0, alerts_sent |-> 0, skipped |-> <<>>]
    /\ UNCHANGED <<now, mode, db, sent>>
    /\ UNCHANGED <<detVars, btVars, fetchVars, extVars>>

\* the loop takes the next signal, up to the await of send_message
ProcessSignal ==
    /\ runner.pc = "loop"
    /\ runner.queue # <<>>
    /\ \E signal \in {Head(runner.queue)} :
       \E is_bullish \in {signal.type = "BULLISH" \/ signal.direction = "BULLISH"},
          is_bearish \in {signal.type = "BEARISH" \/ signal.direction = "BEARISH"},
          signal_type \in {SignalType(signal)} :
          IF \/ is_bullish /\ ~SEND_BULLISH_ALERTS
             \/ is_bearish /\ ~SEND_BEARISH_ALERTS
          THEN /\ runner' = [runner EXCEPT !.queue = Tail(@)]
               /\ UNCHANGED <<db, sent>>
          ELSE IF is_duplicate_alert(db, signal.symbol, signal.timeframe,
                                     signal_type, CooldownHours, now)
          THEN /\ runner' = [runner EXCEPT !.queue = Tail(@),
                                           !.skipped = Append(@, signal)]
               /\ UNCHANGED <<db, sent>>
          ELSE /\ db' = save_divergence(db, signal)
               /\ IF mode = "production"
                  THEN /\ sent' = Append(sent,
                                     [symbol |-> signal.symbol,
                                      timeframe |-> signal.timeframe,
                                      type |-> signal_type,
                                      record_id |-> LastRowId(db'),
                                      at |-> now,
                                      delivered |-> "pending"])
                       /\ runner' = [runner EXCEPT !.pc = "send_message",
                                                   !.record_id = LastRowId(db')]
                  ELSE /\ runner' = [runner EXCEPT !.queue = Tail(@),
                                                   !.record_id = LastRowId(db')]
                       /\ UNCHANGED sent
    /\ UNCHANGED <<now, mode>>
    /\ UNCHANGED <<detVars, btVars, fetchVars, extVars>>

\* a send_message that lets a delivery error through: process_signals
\* logs it and goes on with the next signal, the row stays unmarked
SendMessageReturns_raises ==
    /\ runner.pc = "send_message"
    /\ \E delivered \in BOOLEAN :
          /\ sent' = Delivery(sent, runner.record_id, delivered)
          /\ IF delivered
             THEN /\ db' = mark_as_alerted(db, runner.record_id, now)
                  /\ runner' = [runner EXCEPT !.pc = "sleep", !.alerts_sent = @ + 1]
             ELSE /\ db' = db
                  /\ runner' = [runner EXCEPT !.pc = "loop", !.queue = Tail(@)]
    /\ UNCHANGED <<now, mode>>
    /\ UNCHANGED <<detVars, btVars, fetchVars, extVars>>

\* send_message is over, delivered or not (it swallows its errors): the row
\* is marked and the call sleeps
SendMessageReturns ==
    /\ runner.pc = "send_message"
    /\ \E delivered \in BOOLEAN :
          sent' = Delivery(sent, runner.record_id, delivered)
    /\ db' = mark_as_alerted(db, runner.record_id, now)
    /\ runner' = [runner EXCEPT !.pc = "sleep", !.alerts_sent = @ + 1]
    /\ UNCHANGED <<now, mode>>
    /\ UNCHANGED <<detVars, btVars, fetchVars, extVars>>

SleepReturns ==
    /\ runner.pc = "sleep"
    /\ runner' = [runner EXCEPT !.pc = "loop", !.queue = Tail(@)]
    /\ UNCHANGED <<now, mode, db, sent>>
    /\ UNCHANGED <<detVars, btVars, fetchVars, extVars>>

ProcessSignalsEnd ==
    /\ runner.pc = "loop"
    /\ runner.queue = <<>>
    /\ runner' = RunnerIdle
    /\ UNCHANGED <<now, mode, db, sent>>
    /\ UNCHANGED <<detVars, btVars, fetchVars, extVars>>

NextAlert ==
    \/ Tick
    \/ ProcessSignalsBegin
    \/ ProcessSignal
    \/ SendMessageReturns
    \/ SleepReturns
    \/ ProcessSignalsEnd

SpecAlert == InitAlert /\ [][NextAlert]_vars

-----------------------------------------------------------------------------
(* fetch_ohlcv, called once for a symbol that the spot market and the      *)
(* futures market each list or do not list.                                *)

Requests ==
    { [on_spot |-> s, on_futures |-> f, exchange_name |-> e] :
        s \in BOOLEAN, f \in BOOLEAN, e \in {EXCHANGE, "bybit"} }

InitFetch ==
    /\ DetQuiet
    /\ BtIdle
    /\ AlertIdle
    /\ ExtIdle
    /\ request \in Requests
    /\ fetch = FetchNotCalled

FetchCall ==
    /\ fetch.pc = "not_called"
    /\ fetch' = [fetch EXCEPT !.pc = "loop", !.attempt = 1]
    /\ UNCHANGED request
    /\ UNCHANGED <<detVars, btVars, alertVars, extVars>>

\* one pass of the retry loop
PrimaryAttempt ==
    /\ fetch.pc = "loop"
    /\ \E outcome \in Outcomes(request.on_spot) :
          IF outcome = "ok"
          THEN fetch' = [fetch EXCEPT !.calls = Append(@, outcome),
                                      !.pc = "returned",
                                      !.result = DataFrame("spot")]
          ELSE IF PrimaryHandler(outcome) = "raise"
          THEN fetch' = [fetch EXCEPT !.calls = Append(@, outcome),
                                      !.pc = "returned", !.raised = TRUE]
          ELSE IF PrimaryHandler(outcome) = "break" \/ fetch.attempt = max_retries
          THEN fetch' = [fetch EXCEPT !.calls = Append(@, outcome),
                                      !.pc = "after_loop"]
          ELSE fetch' = [fetch EXCEPT !.calls = Append(@, outcome),
                                      !.attempt = @ + 1]
    /\ UNCHANGED request
    /\ UNCHANGED <<detVars, btVars, alertVars, extVars>>

\* the fallback to Binance Futures
FallbackAttempt ==
    /\ fetch.pc = "after_loop"
    /\ request.exchange_name = "binance"
    /\ \E outcome \in Outcomes(request.on_futures) :
          IF outcome = "ok"
          THEN fetch' = [fetch EXCEPT !.fallback = Append(@, outcome),
                                      !.pc = "returned",
                                      !.result = DataFrame("futures")]
          ELSE IF FallbackHandler(outcome) = "raise"
          THEN fetch' = [fetch EXCEPT !.fallback = Append(@, outcome),
                                      !.pc = "returned", !.raised = TRUE]
          ELSE fetch' = [fetch EXCEPT !.fallback = Append(@, outcome),
                                      !.pc = "failed"]
    /\ UNCHANGED request
    /\ UNCHANGED <<detVars, btVars, alertVars, extVars>>

ReturnNone ==
    /\ \/ fetch.pc = "failed"
       \/ fetch.pc = "after_loop" /\ request.exchange_name # "binance"
    /\ fetch' = [fetch EXCEPT !.pc = "returned", !.result = None]
    /\ UNCHANGED request
    /\ UNCHANGED <<detVars, btVars, alertVars, extVars>>

NextFetch ==
    \/ FetchCall
    \/ PrimaryAttempt
    \/ FallbackAttempt
    \/ ReturnNone

\* fetch_ohlcv is a synchronous function: once called, it runs on
SpecFetch == InitFetch /\ [][NextFetch]_vars /\ WF_vars(NextFetch)

-----------------------------------------------------------------------------
(* Claims about the trade simulator (SpecSim)                              *)

\* the candle at position k of the window of the call touches the
\* take-profit level / the stop-loss level
TouchesTP(call, k) ==
    IF call.direction = "LONG"
    THEN RLe(call.tp_price, RInt(call.future_df[k].high))
    ELSE RLe(RInt(call.future_df[k].low), call.tp_price)

TouchesSL(call, k) ==
    IF call.direction = "LONG"
    THEN RLe(RInt(call.future_df[k].low), call.sl_price)
    ELSE RLe(call.sl_price, RInt(call.future_df[k].high))

Touching(call) ==
    {k \in 1..Len(call.future_df) : TouchesTP(call, k) \/ TouchesSL(call, k)}

FirstOf(S) == CHOOSE k \in S : \A j \in S : k <= j

\* the window of the scenario: LONG entry at 100 with TP 3 % and SL 2 %, and
\* a high reaches 103 before any low reaches 98
Scenario(call) ==
    /\ call.direction = "LONG"
    /\ call.entry_price = 100
    /\ call.take_profit_pct = 3
    /\ call.stop_loss_pct = 2
    /\ \E f \in 1..Len(call.future_df) :
          /\ call.future_df[f].high >= 103
          /\ \A k \in 1..(f - 1) : call.future_df[k].low > 98

\* C4: _simulate_trade_outcome decides the trade at the first candle of the
\* window, in chronological order, that touches a level: the trade is held
\* up to that candle and leaves at its time, it is a WIN at the take-profit
\* price when the candle touches the take-profit level (LONG: high >= TP,
\* SHORT: low <= TP) and otherwise a LOSS at the stop-loss price (LONG:
\* low <= SL, SHORT: high >= SL), and the candles after it play no part: the
\* result is the one of the window cut after that candle.  In the scenario
\* (LONG at 100, TP 3 %, SL 2 %, a high reaches 103 before any low reaches
\* 98) the outcome is WIN with profit_pct = 3.
C4_FirstTouchDecides ==
    sim # None =>
        /\ Touching(sim) # {} =>
              LET f == FirstOf(Touching(sim))
              IN  /\ sim.result.bars_held = f
                  /\ sim.result.exit_time = sim.future_df[f].timestamp
                  /\ TouchesTP(sim, f) =>
                        /\ sim.result.outcome = "WIN"
                        /\ sim.result.exit_price = sim.tp_price
                  /\ ~TouchesTP(sim, f) =>
                        /\ sim.result.outcome = "LOSS"
                        /\ sim.result.exit_price = sim.sl_price
                  /\ sim.result =
                        _simulate_trade_outcome(SubSeq(sim.future_df, 1, f),
                            sim.entry_price, sim.tp_price, sim.sl_price,
                            sim.direction)
        /\ Scenario(sim) =>
              /\ sim.result.outcome = "WIN"
              /\ REq(sim.result.profit_pct, RInt(3))

\* the scenario with a quiet first candle, a second candle whose high is 103
\* and a third candle whose low is below 98: WIN at the second candle
C4_Witness ==
    /\ sim # None
    /\ Scenario(sim)
    /\ Len(sim.future_df) = 3
    /\ Touching(sim) = {2, 3}
    /\ sim.future_df[2].high = 103
    /\ sim.future_df[3].low < 98
    /\ sim.result.outcome = "WIN"
    /\ sim.result.bars_held = 2
    /\ sim.result.profit_pct = RInt(3)

\* a SHORT trade stopped out at the first candle although the second one
\* touches the take-profit level
C4_ShortLossFirst ==
    /\ sim # None
    /\ sim.direction = "SHORT"
    /\ Len(sim.future_df) >= 2
    /\ ~TouchesTP(sim, 1) /\ TouchesSL(sim, 1)
    /\ TouchesTP(sim, 2)
    /\ sim.result.outcome = "LOSS"
    /\ sim.result.bars_held = 1

\* the realized move from the entry to the close c, in percent, with the
\* sign inverted for SHORT
RealizedMove(call, c) ==
    IF call.direction = "LONG"
    THEN <<100 * (c - call.entry_price), call.entry_price>>
    ELSE <<100 * (call.entry_price - c), call.entry_price>>

\* C5: when no candle of a (non-empty) window touches the take-profit or the
\* stop-loss level, the trade is a TIMEOUT that leaves at the close of the
\* last candle, with profit_pct the realized move from the entry to that
\* close in percent (sign inverted for SHORT) and bars_held the length of
\* the window; and a TIMEOUT is never returned when some candle touched a
\* level.
C5_Timeout ==
    sim # None =>
        /\ (sim.future_df # <<>> /\ Touching(sim) = {}) =>
              LET last == sim.future_df[Len(sim.future_df)]
              IN  /\ sim.result.outcome = "TIMEOUT"
                  /\ REq(sim.result.exit_price, RInt(last.close))
                  /\ sim.result.exit_time = last.timestamp
                  /\ REq(sim.result.profit_pct, RealizedMove(sim, last.close))
                  /\ sim.result.bars_held = Len(sim.future_df)
        /\ sim.result.outcome = "TIMEOUT" => Touching(sim) = {}

\* a SHORT trade that nothing touched in three candles and that closed below
\* the entry: TIMEOUT with a profit
C5_Witness ==
    /\ sim # None
    /\ sim.direction = "SHORT"
    /\ Len(sim.future_df) = 3
    /\ Touching(sim) = {}
    /\ sim.future_df[3].close < sim.entry_price
    /\ sim.result.outcome = "TIMEOUT"
    /\ sim.result.bars_held = 3
    /\ RLt(RInt(0), sim.result.profit_pct)

\* the empty window: TIMEOUT at the entry price after 0 bars
C5_EmptyWindow ==
    /\ sim # None
    /\ sim.future_df = <<>>
    /\ sim.result.outcome = "TIMEOUT"
    /\ sim.result.exit_price = RInt(sim.entry_price)
    /\ sim.result.bars_held = 0

-----------------------------------------------------------------------------
(* Claims about the statistics of the backtest (SpecBacktest)              *)

\* how many of the first n per-symbol statistics' trades there are
TradesBefore(n) == SumField(SubSeq(results, 1, n), "total_trades")

\* the trades of the k-th symbol in self.results
TradesOfResult(k) ==
    SubSeq(trades, TradesBefore(k - 1) + 1, TradesBefore(k))

CountOutcome(ts, outcome) ==
    Cardinality({i \in 1..Len(ts) : ts[i].outcome = outcome})

\* C6 as stated: the win rate reported for a list of simulated trades is
\* wins / (wins + losses), in percent, TIMEOUT trades not entering the
\* denominator: per symbol, and over all symbols in the summary.
C6_WinsOverDecided ==
    /\ \A k \in 1..Len(results) :
          LET wins == CountOutcome(TradesOfResult(k), "WIN")
              losses == CountOutcome(TradesOfResult(k), "LOSS")
          IN  wins + losses > 0 =>
                  REq(results[k].win_rate, <<100 * wins, wins + losses>>)
    /\ summary # None =>
          LET ts == SubSeq(trades, 1, TradesBefore(summary.coins))
              wins == CountOutcome(ts, "WIN")
              losses == CountOutcome(ts, "LOSS")
          IN  wins + losses > 0 =>
                  REq(summary.overall_win_rate, <<100 * wins, wins + losses>>)

\* C6, amended: the win rate reported for a list of simulated trades is
\* wins / total trades, in percent: TIMEOUT trades do enter the denominator,
\* per symbol and in the summary over all symbols.
C6_WinsOverAllTrades ==
    /\ \A k \in 1..Len(results) :
          LET ts == TradesOfResult(k)
          IN  /\ Len(ts) > 0
              /\ REq(results[k].win_rate,
                     <<100 * CountOutcome(ts, "WIN"), Len(ts)>>)
    /\ summary # None =>
          LET ts == SubSeq(trades, 1, TradesBefore(summary.coins))
          IN  /\ Len(ts) > 0
              /\ REq(summary.overall_win_rate,
                     <<100 * CountOutcome(ts, "WIN"), Len(ts)>>)

\* a symbol with a WIN, a LOSS and a TIMEOUT: a win rate of one third, and
\* the summary printed over it
C6_Witness ==
    /\ Len(results) = 1
    /\ results[1].wins = 1
    /\ results[1].losses = 1
    /\ results[1].total_trades = 3
    /\ results[1].win_rate = <<100, 3>>
    /\ summary # None
    /\ summary.overall_win_rate = <<100, 3>>

-----------------------------------------------------------------------------
(* Claims about the alert path (SpecAlert)                                 *)

SameKey(a, b) ==
    /\ a.symbol = b.symbol
    /\ a.timeframe = b.timeframe
    /\ a.type = b.type

Rows == {db[k] : k \in DOMAIN db}

Alerts == {sent[k] : k \in DOMAIN sent}

\* the row is marked and its cooldown has not elapsed
CoolingDown(row) ==
    /\ row.alerted
    /\ now < row.alerted_at + 2

DuplicateNow(x) ==
    is_duplicate_alert(db, x.symbol, x.timeframe, x.type, CooldownHours, now)

\* C7: once a row of a key (symbol, timeframe, signal kind) is marked
\* alerted, is_duplicate_alert is true for the key until 2 hours have
\* passed since alerted_at; no alert of another row with that key is sent
\* by process_signals within those 2 hours; and is_duplicate_alert is true
\* for a key only if a row of the key is marked alerted and cooling down,
\* rows saved but never marked never making it true.
C7_Cooldown ==
    /\ \A row \in Rows : CoolingDown(row) => DuplicateNow(row)
    /\ \A row \in Rows : \A alert \in Alerts :
          (/\ row.alerted
           /\ SameKey(row, alert)
           /\ alert.record_id # row.id
           /\ alert.at >= row.alerted_at)
          => alert.at >= row.alerted_at + 2
    /\ \A x \in Rows \cup Signals :
          DuplicateNow([symbol |-> x.symbol, timeframe |-> x.timeframe,
                        type |-> SignalType(x)])
          => \E row \in Rows : SameKey(row, [symbol |-> x.symbol,
                                             timeframe |-> x.timeframe,
                                             type |-> SignalType(x)])
                               /\ CoolingDown(row)

\* an hour after a row was marked, a later call of process_signals skipped a
\* signal of the same key as a duplicate, while a row of the other key is
\* saved and not marked yet
C7_Witness ==
    /\ mode = "production"
    /\ runner.skipped # <<>>
    /\ \E row \in Rows :
          /\ row.alerted
          /\ now = row.alerted_at + 1
          /\ SameKey(row, [symbol |-> runner.skipped[1].symbol,
                           timeframe |-> runner.skipped[1].timeframe,
                           type |-> SignalType(runner.skipped[1])])
    /\ \E row \in Rows : ~row.alerted
    /\ Len(sent) = 2

\* once the cooldown has elapsed, an alert of the same key is sent again
C7_SentAgainAfterCooldown ==
    \E a \in Alerts, b \in Alerts :
        /\ SameKey(a, b)
        /\ a.record_id # b.record_id
        /\ db[a.record_id].alerted
        /\ b.at = db[a.record_id].alerted_at + 2

\* in test mode nothing is marked and nothing is a duplicate
C7_TestModeNeverDuplicate ==
    /\ mode = "test"
    /\ Len(db) = MaxRows
    /\ \A row \in Rows : SameKey(row, db[1]) /\ ~row.alerted
    /\ ~DuplicateNow(db[1])

-----------------------------------------------------------------------------
(* Claims about fetch_ohlcv (SpecFetch)                                    *)

IsA(error, class) == error # "ok" /\ class \in Classes(error)

FetchBounds ==
    /\ ~fetch.raised
    /\ fetch.pc = "returned" =>
          \/ fetch.result = None
          \/ fetch.result \in {DataFrame("spot"), DataFrame("futures")}
    /\ fetch.pc # "returned" => fetch.result = Pending
    /\ Len(fetch.calls) <= 3
    /\ \A k \in 1..(Len(fetch.calls) - 1) :
          /\ fetch.calls[k] # "ok"
          /\ ~IsA(fetch.calls[k], "ExchangeError")
    /\ Len(fetch.fallback) <= 1
    /\ fetch.fallback # <<>> =>
          /\ fetch.calls # <<>>
          /\ fetch.calls[Len(fetch.calls)] # "ok"
    /\ (fetch.pc = "returned" /\ ~request.on_spot /\ ~request.on_futures)
          => fetch.result = None

\* C8: fetch_ohlcv always comes back, with a candle table or with None, and
\* raises nothing; it calls the primary exchange at most 3 times, a further
\* time only after a network error or an unexpected error (never after an
\* exchange error, never after a success), and the fallback at most once
\* and only after the primary calls failed; for a symbol no market lists
\* (every call is refused) the result is None.
C8_BoundedFetch == []FetchBounds /\ <>(fetch.pc = "returned")

\* a symbol no market lists, asked of binance: one refused primary call, one
\* refused fallback call, None
C8_Witness ==
    /\ fetch.pc = "returned"
    /\ request = [on_spot |-> FALSE, on_futures |-> FALSE,
                  exchange_name |-> "binance"]
    /\ fetch.calls = <<"BadSymbol">>
    /\ fetch.fallback = <<"BadSymbol">>
    /\ fetch.result = None

\* three network errors, then candles from the futures market
C8_ThreeAttemptsThenFallback ==
    /\ fetch.pc = "returned"
    /\ Len(fetch.calls) = 3
    /\ \A k \in 1..3 : IsA(fetch.calls[k], "NetworkError")
    /\ fetch.fallback = <<"ok">>
    /\ fetch.result = DataFrame("futures")

\* the spot market refuses the symbol, the futures market lists it: candles
\* from the futures market
C8_RefusedOnSpotOnly ==
    /\ fetch.pc = "returned"
    /\ ~request.on_spot
    /\ fetch.calls = <<"BadSymbol">>
    /\ fetch.result = DataFrame("futures")

-----------------------------------------------------------------------------
(* check_price_action_confirms, called by the detectors and called         *)
(* directly at positions up to the last row of the table.                  *)

\* the second pivot is followed by 0 .. ConfirmCandles confirming closes
ConfirmTables ==
    { MkDf(kind, FarLead + gap + EdgeSkip + tail, FarLead, FarLead + gap,
           shape, dr, FALSE, nconf) :
        kind \in {"peaks", "troughs"},
        gap \in {10},
        tail \in 0..MaxTail,
        shape \in Shapes,
        dr \in {10},
        nconf \in 0..ConfirmCandles }

\* the positions check_price_action_confirms is called at: the second pivot
\* and the last rows of the table
ConfirmPositions(d) ==
    {d.len - k : k \in 1..(EdgeSkip + MaxTail)}

InitConfirm ==
    /\ df \in ConfirmTables
    /\ detector \in Detectors
    /\ DetIdle
    /\ BtIdle
    /\ AlertIdle
    /\ FetchIdle
    /\ ExtIdle

CallCheckPriceActionConfirms ==
    /\ op = "idle"
    /\ \E divergence \in Types, current_idx \in ConfirmPositions(df) :
          confirmation' =
              [divergence |-> divergence, current_idx |-> current_idx,
               result |-> check_price_action_confirms(df, detector, divergence,
                                                      current_idx)]
    /\ op' = "check_price_action_confirms"
    /\ UNCHANGED <<df, detector, pivots, divergences, sr_detector, reversals>>
    /\ UNCHANGED <<btVars, alertVars, fetchVars, score, mtf, runVars>>

NextConfirm ==
    \/ CallCheckPriceActionConfirms
    \/ CallDetectAllDivergences

SpecConfirm == InitConfirm /\ [][NextConfirm]_vars

-----------------------------------------------------------------------------
(* Claims about the confirmation check, checked under SpecConfirm *)

\* the candles that follow position idx, at most ConfirmCandles of them
Following(idx) ==
    {j \in (idx + 1)..(idx + ConfirmCandles) : j < df.len}

\* how many of them close beyond the close of the candle at idx
Confirming(type, idx) ==
    Cardinality({j \in Following(idx) :
                    IF type = "BEARISH" THEN df.close[j] < df.close[idx]
                    ELSE df.close[j] > df.close[idx]})

ConfirmationHolds(type, idx) ==
    /\ Cardinality(Following(idx)) = ConfirmCandles
    /\ Confirming(type, idx) >= MinConfirming

\* C11: with require_confirmation enabled a divergence is emitted only if at
\* least 2 of the 3 candles after the second pivot close below (BEARISH) or
\* above (BULLISH) the pivot candle's close, and the check fails whenever
\* fewer than 3 candles follow the position it is asked about.
C11_Confirmation ==
    detector.require_confirmation =>
        /\ op = "detect_all_divergences" =>
              \A k \in 1..Len(divergences) :
                  ConfirmationHolds(divergences[k].type, divergences[k].peak2_idx)
        /\ op = "check_price_action_confirms" =>
              /\ confirmation.result.confirmed
                    <=> ConfirmationHolds(confirmation.divergence,
                                          confirmation.current_idx)
              /\ Cardinality(Following(confirmation.current_idx)) < ConfirmCandles
                    => ~confirmation.result.confirmed

\* a signal emitted on exactly two confirming closes
C11_Witness ==
    /\ detector.require_confirmation
    /\ op = "detect_all_divergences"
    /\ \E k \in 1..Len(divergences) :
          Confirming(divergences[k].type, divergences[k].peak2_idx) = MinConfirming

\* two candles follow, both confirming, and the check fails
C11_TooFewCandles ==
    /\ detector.require_confirmation
    /\ op = "check_price_action_confirms"
    /\ Cardinality(Following(confirmation.current_idx)) = ConfirmCandles - 1
    /\ Confirming(confirmation.divergence, confirmation.current_idx) = ConfirmCandles - 1
    /\ ~confirmation.result.confirmed

\* a pair that passed every other gate and was dropped for one confirming close
C11_DroppedUnconfirmed ==
    /\ detector.require_confirmation
    /\ op = "detect_all_divergences"
    /\ divergences = <<>>
    /\ PairOf("BEARISH").found
    /\ PairOf("BEARISH").is_valid
    /\ Confirming("BEARISH", PairOf("BEARISH").peak2.index) = MinConfirming - 1

-----------------------------------------------------------------------------
(* _calculate_quality_score, called directly: once on any inputs, then     *)
(* again and again with one input changed and the other three held.        *)

(* The arguments are those the detectors pass at lines 261 and 351: a price *)
(* change of at least 0.5 % and an RSI change of at least                   *)
(* min_rsi_divergence, both positive once validate_divergence_alignment    *)
(* has passed, and the smaller prominence of two pivots, which is at least *)
(* min_peak_prominence.                                                    *)

\* price_change_pct, in percent: 20/39 is the move from 390 to 392
PriceChanges == { <<1, 2>>, <<20, 39>>, <<4, 1>>, <<5, 1>>, <<6, 1>> }

RsiChanges == {5, 9, 10, 11}

\* prominence, in percent
Prominences == { <<2, 1>>, <<7, 3>>, <<5, 1>>, <<6, 1>> }

ScoreCall(price_change_pct, rsi_change, prominence, confirmed) ==
    [price_change_pct |-> price_change_pct, rsi_change |-> rsi_change,
     prominence |-> prominence, confirmed |-> confirmed,
     result |-> _calculate_quality_score(price_change_pct, rsi_change,
                                         prominence, confirmed)]

\* 1 if the argument of the new call differs from that of the last one
Changed(a, b) == IF a # b THEN 1 ELSE 0

InitScore ==
    /\ DetQuiet
    /\ BtIdle
    /\ AlertIdle
    /\ FetchIdle
    /\ ExtIdle

CallCalculateQualityScore ==
    /\ score.last = None
    /\ \E price_change_pct \in PriceChanges, rsi_change \in RsiChanges,
          prominence \in Prominences, confirmed \in BOOLEAN :
          score' = [previous |-> score.last,
                    last |-> ScoreCall(price_change_pct, rsi_change,
                                       prominence, confirmed)]
    /\ UNCHANGED <<detVars, btVars, alertVars, fetchVars, confirmation, mtf, runVars>>

CallAgainWithOneInputChanged ==
    /\ score.last # None
    /\ \E price_change_pct \in PriceChanges, rsi_change \in RsiChanges,
          prominence \in Prominences, confirmed \in BOOLEAN :
          /\ Changed(price_change_pct, score.last.price_change_pct)
             + Changed(rsi_change, score.last.rsi_change)
             + Changed(prominence, score.last.prominence)
             + Changed(confirmed, score.last.confirmed) = 1
          /\ score' = [previous |-> score.last,
                       last |-> ScoreCall(price_change_pct, rsi_change,
                                          prominence, confirmed)]
    /\ UNCHANGED <<detVars, btVars, alertVars, fetchVars, confirmation, mtf, runVars>>

NextScore ==
    \/ CallCalculateQualityScore
    \/ CallAgainWithOneInputChanged

SpecScore == InitScore /\ [][NextScore]_vars

-----------------------------------------------------------------------------
(* Claims about the quality score, checked under SpecScore *)

\* the four parts of the score of a call, as fractions of a point
PricePart(c) ==
    RMin(<<PriceScoreFactor * Abs(c.price_change_pct[1]), c.price_change_pct[2]>>,
         RInt(PriceScoreMax))

RsiPart(c) == RInt(Min2(RsiScoreFactor * Abs(c.rsi_change), RsiScoreMax))

ProminencePart(c) ==
    RMin(<<ProminenceScoreFactor * c.prominence[1], c.prominence[2]>>,
         RInt(ProminenceScoreMax))

BonusPart(c) == RInt(IF c.confirmed THEN ConfirmationBonus ELSE 0)

SumOfParts(c) ==
    RAdd(RAdd(PricePart(c), RsiPart(c)), RAdd(ProminencePart(c), BonusPart(c)))

\* the score is kept in tenths
InRange(c) == 0 <= c.result /\ c.result <= ScoreMax * 10

Calls == {c \in {score.previous, score.last} : c # None}

C12_FullScore ==
    /\ score.last # None
    /\ score.last.result = ScoreMax * 10

\* the second call raised one argument of the first and held the other three
RaisedOne(a, b) ==
    \/ /\ RLt(a.price_change_pct, b.price_change_pct)
       /\ a.rsi_change = b.rsi_change
       /\ a.prominence = b.prominence
       /\ a.confirmed = b.confirmed
    \/ /\ a.price_change_pct = b.price_change_pct
       /\ a.rsi_change < b.rsi_change
       /\ a.prominence = b.prominence
       /\ a.confirmed = b.confirmed
    \/ /\ a.price_change_pct = b.price_change_pct
       /\ a.rsi_change = b.rsi_change
       /\ RLt(a.prominence, b.prominence)
       /\ a.confirmed = b.confirmed
    \/ /\ a.price_change_pct = b.price_change_pct
       /\ a.rsi_change = b.rsi_change
       /\ a.prominence = b.prominence
       /\ ~a.confirmed /\ b.confirmed

C13_Capped ==
    /\ score.previous # None
    /\ RaisedOne(score.previous, score.last)
    /\ score.previous.rsi_change < score.last.rsi_change
    /\ score.last.result = score.previous.result

-----------------------------------------------------------------------------
(* scan_with_mtf_filter over one to MaxSymbols symbols.  For each symbol   *)
(* the fetcher delivers a signal table and a higher-timeframe table, or    *)
(* fails to (None); the higher-timeframe closes rest at TrendBase and end  *)
(* on one or two closes at another price.                                  *)

MaxSymbols == 2

TrendBase == 100

\* the closes the higher-timeframe table ends on
LastCloses == {97, 98, 100, 102, 103}

MkTrend(n, last, k) ==
    [len   |-> n,
     close |-> [i \in 0..(n - 1) |-> IF i >= n - k THEN last ELSE TrendBase]]

\* tables of just ema_period + 10 rows, and one that is a row short
TrendTables ==
    { MkTrend(EmaPeriod + EmaSpare, last, k) : last \in LastCloses, k \in 1..2 }
        \cup { MkTrend(EmaPeriod + EmaSpare - 1, TrendBase + 3, 1) }

\* signal tables holding a bearish divergence, a bullish one and none
SignalTables ==
    { MkDf(kind, FarLead + 10 + EdgeSkip + 1, FarLead, FarLead + 10,
           shape, 10, FALSE, MinConfirming) :
        kind \in {"peaks", "troughs"},
        shape \in { <<300, 10, 16>>, <<300, 15, 7>> } }

SymbolLists ==
    UNION { [1..n -> Symbols] : n \in 1..MaxSymbols }

InitMtf ==
    /\ DetQuiet
    /\ BtIdle
    /\ AlertIdle
    /\ FetchIdle
    /\ ExtIdle

ScanWithMtfFilter ==
    /\ mtf.pc = "idle"
    /\ \E symbols \in SymbolLists :
          mtf' = [MtfIdle EXCEPT !.pc = "loop", !.symbols = symbols]
    /\ UNCHANGED <<detVars, btVars, alertVars, fetchVars, confirmation, score, runVars>>

\* one pass of the loop body: check_mtf_confirmation returns
MtfCheckSymbol ==
    /\ mtf.pc = "loop"
    /\ mtf.symbols # <<>>
    /\ \E signal_df \in SignalTables \cup {None},
          higher_df \in TrendTables \cup {None} :
          \E rs \in {check_mtf_confirmation(detector, Head(mtf.symbols),
                                                 signal_df, higher_df)} :
              mtf' = [mtf EXCEPT
                        !.symbols = Tail(@),
                        !.higher_df = higher_df,
                        !.results = rs,
                        !.confirmed_signals =
                            IF rs = None THEN @
                            ELSE @ \o SelectSeq(rs.rows,
                                                LAMBDA result : result.confirmed)]
    /\ UNCHANGED <<detVars, btVars, alertVars, fetchVars, confirmation, score, runVars>>

\* one pass of the loop body: check_mtf_confirmation raises, the except
\* clause prints and continues
MtfCheckRaises ==
    /\ mtf.pc = "loop"
    /\ mtf.symbols # <<>>
    /\ mtf' = [mtf EXCEPT !.symbols = Tail(@)]
    /\ UNCHANGED <<detVars, btVars, alertVars, fetchVars, confirmation, score, runVars>>

MtfReturn ==
    /\ mtf.pc = "loop"
    /\ mtf.symbols = <<>>
    /\ mtf' = [mtf EXCEPT !.pc = "returned", !.returned = mtf.confirmed_signals]
    /\ UNCHANGED <<detVars, btVars, alertVars, fetchVars, confirmation, score, runVars>>

NextMtf ==
    \/ ScanWithMtfFilter
    \/ MtfCheckSymbol
    \/ MtfCheckRaises
    \/ MtfReturn

SpecMtf == InitMtf /\ [][NextMtf]_vars

-----------------------------------------------------------------------------
(* Claims about the multi-timeframe filter, checked under SpecMtf *)

\* the table of the claim: the confidence a (type, trend) pair is confirmed
\* with, "none" when it is rejected
TableConfidence(type, trend) ==
    IF type = "BULLISH" /\ trend = "DOWNTREND" THEN "HIGH"
    ELSE IF type = "BEARISH" /\ trend = "UPTREND" THEN "HIGH"
    ELSE IF type \in Types /\ trend = "SIDEWAYS" THEN "MEDIUM"
    ELSE "none"

FollowsTable(result) ==
    IF TableConfidence(result.divergence_type, result.higher_trend) = "none"
    THEN ~result.confirmed
    ELSE /\ result.confirmed
         /\ result.confidence =
                TableConfidence(result.divergence_type, result.higher_trend)

C14_UnknownRejected ==
    /\ mtf.results # None
    /\ mtf.results.rows[1].higher_trend = "UNKNOWN"
    /\ mtf.confirmed_signals = <<>>

\* a BEARISH divergence rejected against a DOWNTREND
C14_BearishRejected ==
    /\ mtf.results # None
    /\ mtf.results.rows[1].divergence_type = "BEARISH"
    /\ mtf.results.rows[1].higher_trend = "DOWNTREND"
    /\ ~mtf.results.rows[1].confirmed

\* a BULLISH divergence rejected against an UPTREND
C14_BullishRejected ==
    /\ mtf.results # None
    /\ mtf.results.rows[1].divergence_type = "BULLISH"
    /\ mtf.results.rows[1].higher_trend = "UPTREND"
    /\ ~mtf.results.rows[1].confirmed

-----------------------------------------------------------------------------
(* backtester.py: backtest_single_coin from the fetch to the statistics.   *)
(*                                                                         *)
(* The exchange's candles are a table with a column timestamp besides the  *)
(* columns of the detector tables; timestamps and the clock count whole    *)
(* days, the timeframe is '1d'.  The RSI column stands for what            *)
(* RSIIndicator(window=14) computes: calculate_rsi drops the rows it       *)
(* leaves without a value.                                                 *)

\* for i in range(window_size, len(df) - 20), df.iloc[i+1:i+21]
WindowSize == 100

FutureCandles == 20

\* if df is None or len(df) < 100
MinBacktestRows == 100

\* RSIIndicator(window=14) has no value for the first 13 rows
RsiWarmup == 13

\* limit = min(total_candles, 1000)
ExchangeLimit == 1000

MinutesPerDay == 1440

\* tf_minutes.get(timeframe, 15)
TfMinutes(timeframe) ==
    CASE timeframe = "1m" -> 1
      [] timeframe = "5m" -> 5
      [] timeframe = "30m" -> 30
      [] timeframe = "1h" -> 60
      [] timeframe = "4h" -> 240
      [] timeframe = "1d" -> 1440
      [] OTHER -> 15

\* df.iloc[lo:hi] with the index reset
Iloc(d, lo, hi) ==
    LET n == Max2(0, Min2(hi, d.len) - lo)
        Col(c) == [i \in 0..(n - 1) |-> c[i + lo]]
    IN  [len |-> n,
         timestamp |-> Col(d.timestamp),
         high |-> Col(d.high),
         low |-> Col(d.low),
         close |-> Col(d.close),
         rsi |-> Col(d.rsi),
         volume |-> Col(d.volume)]

\* fetch_ohlcv(symbol, timeframe, limit): the newest `limit` candles
FetchNewest(series, limit) ==
    IF series.len <= limit THEN series
    ELSE Iloc(series, series.len - limit, series.len)

\* the table _fetch_historical_data returns when the clock shows t
_fetch_historical_data(series, timeframe, lookback_days, t) ==
    LET candles_per_day == MinutesPerDay \div TfMinutes(timeframe)
        total_candles == lookback_days * candles_per_day
        limit == Min2(total_candles, ExchangeLimit)
        fetched == FetchNewest(series, limit)
        cutoff == t - lookback_days
        kept == {i \in 0..(fetched.len - 1) : fetched.timestamp[i] >= cutoff}
        first == IF kept = {} THEN fetched.len
                 ELSE CHOOSE i \in kept : \A j \in kept : i <= j
    IN  IF fetched.len = 0 THEN None
        ELSE Iloc(fetched, first, fetched.len)

\* RSICalculator.calculate_rsi: the rows that have an RSI value
calculate_rsi(d) == Iloc(d, Min2(RsiWarmup, d.len), d.len)

\* StructuralDivergenceDetector.detect_all_divergences: the divergences of
\* the window, each with its strength
structural_detect_all_divergences(window_df, det) ==
    LET found == detect_all_divergences(window_df, det)
    IN  [k \in 1..Len(found) |-> found[k] @@ [strength |-> found[k].quality]]

\* df.iloc[i+1:i+21] as the sequence of its candles
FutureOf(d, i) ==
    [k \in 1..Max2(0, Min2(FutureCandles, d.len - 1 - i)) |->
        [timestamp |-> d.timestamp[i + k],
         high |-> d.high[i + k],
         low |-> d.low[i + k],
         close |-> d.close[i + k]]]

\* the trades the loop body records at position i
TradesAt(d, i, det, symbol, timeframe, take_profit_pct, stop_loss_pct) ==
    LET entry_price == d.close[i]
        Trade(div) ==
            LET call == SimCall(div.type, entry_price, take_profit_pct,
                                stop_loss_pct, FutureOf(d, i))
            IN  TradeOf(symbol, div.type, entry_price, call, call.result)
                    @@ [timeframe |-> timeframe,
                        entry_time |-> d.timestamp[i],
                        strength |-> div.strength]
        Body(found) == [k \in 1..Len(found) |-> Trade(found[k])]
    IN  CHOOSE r \in
            { Body(found) :
                found \in {structural_detect_all_divergences(
                               Iloc(d, Max2(0, i - WindowSize), i + 1), det)} } :
            TRUE

\* the trades of the loop from position i on
RECURSIVE WalkFrom(_, _, _, _, _, _, _)
WalkFrom(d, i, det, symbol, timeframe, take_profit_pct, stop_loss_pct) ==
    IF i >= d.len - FutureCandles THEN <<>>
    ELSE TradesAt(d, i, det, symbol, timeframe, take_profit_pct, stop_loss_pct)
         \o WalkFrom(d, i + 1, det, symbol, timeframe, take_profit_pct,
                     stop_loss_pct)

\* what a call leaves behind: self.trades and self.results, and what it
\* printed and returned
BacktestOutcome(self, fetched, coin, call) ==
    IF coin # <<>>
    THEN LET stats == _calculate_statistics(coin)
                          @@ [symbol |-> call.symbol, timeframe |-> call.timeframe]
         IN  [trades |-> self.trades \o coin,
              results |-> Append(self.results, stats),
              candles |-> fetched.len,
              coin_trades |-> coin,
              returned |-> stats]
    ELSE [trades |-> self.trades, results |-> self.results,
          candles |-> fetched.len, coin_trades |-> <<>>, returned |-> None]

\* "Insufficient data"
InsufficientData(self, fetched) ==
    [trades |-> self.trades, results |-> self.results,
     candles |-> IF fetched = None THEN 0 ELSE fetched.len,
     coin_trades |-> <<>>, returned |-> None]

backtest_single_coin_shared(self, series, call, t) ==
    LET Run(fetched) ==
            IF fetched = None \/ fetched.len < MinBacktestRows
            THEN InsufficientData(self, fetched)
            ELSE CHOOSE r \in
                     { BacktestOutcome(self, fetched, coin, call) :
                         coin \in {self.trades \o
                                   WalkFrom(calculate_rsi(fetched), WindowSize,
                                            self.detector, call.symbol,
                                            call.timeframe, call.take_profit_pct,
                                            call.stop_loss_pct)} } : TRUE
    IN  CHOOSE r \in
            { Run(fetched) :
                fetched \in {_fetch_historical_data(series, call.timeframe,
                                                    call.lookback_days, t)} } : TRUE

\* self is the backtester [trades, results, detector], call the arguments
\* [symbol, timeframe, lookback_days, take_profit_pct, stop_loss_pct], t the
\* clock during the call
backtest_single_coin(self, series, call, t) ==
    LET Run(fetched) ==
            IF fetched = None \/ fetched.len < MinBacktestRows
            THEN InsufficientData(self, fetched)
            ELSE CHOOSE r \in
                     { BacktestOutcome(self, fetched, coin, call) :
                         coin \in {WalkFrom(calculate_rsi(fetched), WindowSize,
                                            self.detector, call.symbol,
                                            call.timeframe, call.take_profit_pct,
                                            call.stop_loss_pct)} } : TRUE
    IN  CHOOSE r \in
            { Run(fetched) :
                fetched \in {_fetch_historical_data(series, call.timeframe,
                                                    call.lookback_days, t)} } : TRUE

-----------------------------------------------------------------------------
(* Replays of a backtest on one DivergenceBacktester: the exchange returns *)
(* one of the series below whenever it is asked, the clock moves on        *)
(* between the calls.                                                       *)

\* at most this many calls of backtest_single_coin
MaxRuns == 2

\* the clock runs from the day of the newest candle, day 0, to this day
MaxDays == 2

\* the candles of a series: enough for three positions of the walk
SeriesRows == RsiWarmup + WindowSize + FutureCandles + 3

\* the pivots, as the walk's first window sees them at 80 and 90
FirstPivot == RsiWarmup + 80

SecondPivot == RsiWarmup + 90

\* from this row on the candles reach 4 % beyond the entry price: the row
\* is in the lookahead of every position of the walk but the first
MoveRow == RsiWarmup + WindowSize + FutureCandles + 1

MovePct == 4

\* a divergence before the walk begins and, with `move`, a late move of the
\* price in favour of the trade ("tp") or against it ("sl"); the newest
\* candle is the one of day 0
MkSeries(kind, move) ==
    LET n == SeriesRows
        quiet == MkDf(kind, n, FirstPivot, SecondPivot, <<300, 10, 16>>, 10,
                      FALSE, MinConfirming)
        base == 300
        up == (base * (100 + MovePct)) \div 100
        down == (base * (100 - MovePct)) \div 100
        rises == (kind = "peaks" /\ move = "sl") \/ (kind = "troughs" /\ move = "tp")
        falls == (kind = "peaks" /\ move = "tp") \/ (kind = "troughs" /\ move = "sl")
    IN  [len |-> n,
         timestamp |-> [i \in 0..(n - 1) |-> i - (n - 1)],
         high |-> [i \in 0..(n - 1) |->
                      IF i >= MoveRow /\ rises THEN up ELSE quiet.high[i]],
         low |-> [i \in 0..(n - 1) |->
                     IF i >= MoveRow /\ falls THEN down ELSE quiet.low[i]],
         close |-> quiet.close,
         rsi |-> quiet.rsi,
         volume |-> quiet.volume]

ReplaySeries ==
    { MkSeries(kind, move) : kind \in {"peaks", "troughs"}, move \in {"tp", "sl"} }

ReplayCalls ==
    { [symbol |-> "BTC/USDT", timeframe |-> "1d", lookback_days |-> SeriesRows,
       take_profit_pct |-> pct[1], stop_loss_pct |-> pct[2]] :
        pct \in Percentages }

InitReplay ==
    /\ DetQuiet
    /\ BtIdle
    /\ AlertIdle
    /\ FetchIdle
    /\ ExtIdle

\* backtest_single_coin(symbol, timeframe, lookback_days, take_profit_pct,
\* stop_loss_pct) from its first line to its return
BacktestSingleCoin ==
    /\ Len(replay) < MaxRuns
    /\ \E series \in ReplaySeries, call \in ReplayCalls :
          \E out \in {backtest_single_coin(
                          [trades |-> trades, results |-> results,
                           detector |-> detector], series, call, now)} :
              /\ trades' = out.trades
              /\ results' = out.results
              /\ replay' = Append(replay,
                                  [series |-> series, call |-> call, at |-> now,
                                   candles |-> out.candles,
                                   coin_trades |-> out.coin_trades,
                                   returned |-> out.returned])
    /\ UNCHANGED <<sim, bt_call, coin_trades, summary>>
    /\ UNCHANGED <<detVars, alertVars, fetchVars>>
    /\ UNCHANGED <<confirmation, score, mtf, bot, opt, walk, scheduled, scanner>>

\* a day passes
DayPasses ==
    /\ now < MaxDays
    /\ now' = now + 1
    /\ UNCHANGED <<mode, db, runner, sent>>
    /\ UNCHANGED <<detVars, btVars, fetchVars, extVars>>

NextReplay ==
    \/ BacktestSingleCoin
    \/ DayPasses

SpecReplay == InitReplay /\ [][NextReplay]_vars

\* two calls replay the same candle series with the same parameters
SameReplay(a, b) == a.series = b.series /\ a.call = b.call

\* the outcomes of a call's trades, in the order of the walk
TradeOutcomes(run) ==
    [k \in 1..Len(run.coin_trades) |->
        [entry_time |-> run.coin_trades[k].entry_time,
         direction |-> run.coin_trades[k].direction,
         exit_price |-> run.coin_trades[k].exit_price,
         exit_time |-> run.coin_trades[k].exit_time,
         outcome |-> run.coin_trades[k].outcome,
         profit_pct |-> run.coin_trades[k].profit_pct,
         bars_held |-> run.coin_trades[k].bars_held]]

\* C15 as stated: replaying the identical candle series with identical
\* parameters yields the identical sequence of trade outcomes, whatever ran
\* before on the backtester and whatever the clock shows.
C15_SameSeriesSameOutcomes ==
    \A i, j \in DOMAIN replay :
        SameReplay(replay[i], replay[j])
            => TradeOutcomes(replay[i]) = TradeOutcomes(replay[j])

\* C15 as amended: replaying the identical candle series with identical
\* parameters yields the identical sequence of trade outcomes and the
\* identical statistics, whatever ran before on the backtester, when the
\* cutoff datetime.now() - lookback_days leaves the same candles.
C15_SameCandlesSameOutcomes ==
    \A i, j \in DOMAIN replay :
        SameReplay(replay[i], replay[j]) /\ replay[i].candles = replay[j].candles
            => /\ TradeOutcomes(replay[i]) = TradeOutcomes(replay[j])
               /\ replay[i].returned = replay[j].returned

\* a series is replayed after a call that left trades on the backtester,
\* and the replay trades, too, with a decided and a timed-out trade
C15_Witness ==
    \E i, j \in DOMAIN replay :
        /\ i < j
        /\ SameReplay(replay[i], replay[j])
        /\ replay[i].candles = replay[j].candles
        /\ replay[i].at < replay[j].at
        /\ \E k, l \in DOMAIN replay[j].coin_trades :
              /\ replay[j].coin_trades[k].outcome = "TIMEOUT"
              /\ replay[j].coin_trades[l].outcome \in {"WIN", "LOSS"}

\* the replay a day later walks one candle less and misses the first trade
C15_LaterReplayDiffers ==
    \E i, j \in DOMAIN replay :
        /\ i < j
        /\ SameReplay(replay[i], replay[j])
        /\ replay[j].candles = replay[i].candles - 1
        /\ Len(replay[j].coin_trades) < Len(replay[i].coin_trades)

-----------------------------------------------------------------------------
(* main.py: start, perform_enhanced_scan, scheduled_scan and stop.         *)
(*                                                                         *)
(* bot holds is_running, scan_count, whether the scheduler runs, whether   *)
(* stop() has been entered, where start() stands (pc) and the scan in      *)
(* progress: its position in the two loops and its list all_signals.  A    *)
(* pass of the inner loop ends at await asyncio.sleep(0.3) or at a         *)
(* continue; stop() runs as a task of its own, created by signal_handler,  *)
(* between two passes.  What the detectors find for a symbol is an input.  *)
(* process_signals is followed in SpecAlert; here its argument is kept.    *)

\* timeframes = ['15m', '30m']
ScanTimeframes == <<"15m", "30m">>

\* the first symbols of DEFAULT_WATCHLIST
WatchlistSize == 2

\* at most this many scans are started
MaxScans == 2

Watchlist == [k \in 1..WatchlistSize |-> IF k = 1 THEN "BTC/USDT" ELSE "ETH/USDT"]

\* what a pass of the loop body comes to: too few candles (continue), no
\* signal, a divergence of quality >= 60, a reversal of strength >= 50, an
\* exception (logged, continue)
PassResults == {"short", "nothing", "divergence", "reversal", "raised"}

BotCreated ==
    [pc |-> "created", is_running |-> FALSE, scan_count |-> 0,
     scheduler_running |-> FALSE, stopping |-> FALSE, scan |-> None,
     handed |-> None]

\* perform_enhanced_scan up to the first pass of its loops
ScanBegun(b) ==
    [b EXCEPT !.scan_count = b.scan_count + 1,
              !.scan = [tf |-> 1, i |-> 1, all_signals |-> <<>>]]

\* all_signals after a pass with the given result
AfterPass(scan, result) ==
    LET signal == [symbol |-> Watchlist[scan.i],
                   timeframe |-> ScanTimeframes[scan.tf],
                   signal_type |-> IF result = "divergence" THEN "DIVERGENCE"
                                   ELSE "RSI_REVERSAL"]
    IN  IF result \in {"divergence", "reversal"}
        THEN Append(scan.all_signals, signal)
        ELSE scan.all_signals

\* the loops are over
ScanExhausted(scan) == scan.tf > Len(ScanTimeframes)

InitStop ==
    /\ DetQuiet
    /\ BtIdle
    /\ FetchIdle
    /\ now = 0
    /\ mode \in {"production", "test"}
    /\ db = <<>>
    /\ runner = RunnerIdle
    /\ sent = <<>>
    /\ confirmation = None
    /\ score = [previous |-> None, last |-> None]
    /\ mtf = MtfIdle
    /\ replay = <<>>
    /\ bot = BotCreated
    /\ opt = None
    /\ walk = None
    /\ scheduled = None
    /\ scanner = None

\* start(): the scheduler is started in production, the first scan begins
BotStart ==
    /\ bot.pc = "created"
    /\ bot' = ScanBegun([bot EXCEPT
                            !.pc = IF mode = "production" THEN "initial_scan"
                                   ELSE "test_scan",
                            !.scheduler_running = (mode = "production")])
    /\ UNCHANGED <<detVars, btVars, alertVars, fetchVars>>
    /\ UNCHANGED <<confirmation, score, mtf, replay, opt, walk, scheduled, scanner>>

\* one pass of the loop body of perform_enhanced_scan
ScanPass ==
    /\ bot.scan # None
    /\ ~ScanExhausted(bot.scan)
    /\ \E result \in PassResults :
          bot' = [bot EXCEPT
                     !.scan = [tf |-> IF bot.scan.i = WatchlistSize
                                      THEN bot.scan.tf + 1 ELSE bot.scan.tf,
                               i |-> IF bot.scan.i = WatchlistSize
                                     THEN 1 ELSE bot.scan.i + 1,
                               all_signals |-> AfterPass(bot.scan, result)]]
    /\ UNCHANGED <<detVars, btVars, alertVars, fetchVars>>
    /\ UNCHANGED <<confirmation, score, mtf, replay, opt, walk, scheduled, scanner>>

\* the scan after its loops: process_signals(all_signals) if there are
\* any; back in start(), is_running = True after the initial scan, the
\* return after the test scan
ScanFinish ==
    /\ bot.scan # None
    /\ ScanExhausted(bot.scan)
    /\ bot' = [bot EXCEPT
                  !.scan = None,
                  !.handed = IF bot.scan.all_signals # <<>>
                             THEN [type |-> "signals",
                                   signals |-> bot.scan.all_signals]
                             ELSE bot.handed,
                  !.is_running = IF bot.pc = "initial_scan" THEN TRUE
                                 ELSE bot.is_running,
                  !.pc = IF bot.pc = "initial_scan" THEN "operational"
                         ELSE IF bot.pc = "test_scan" THEN "returned"
                         ELSE bot.pc]
    /\ UNCHANGED <<detVars, btVars, alertVars, fetchVars>>
    /\ UNCHANGED <<confirmation, score, mtf, replay, opt, walk, scheduled, scanner>>

\* the scheduler's interval elapses: scheduled_scan
ScheduledScan ==
    /\ bot.pc = "operational"
    /\ bot.scheduler_running
    /\ bot.scan = None
    /\ bot.scan_count < MaxScans
    /\ bot' = ScanBegun(bot)
    /\ UNCHANGED <<detVars, btVars, alertVars, fetchVars>>
    /\ UNCHANGED <<confirmation, score, mtf, replay, opt, walk, scheduled, scanner>>

\* stop(), called through signal_handler: the table divergences is empty,
\* cleanup_old_records deletes nothing
Stop ==
    /\ bot.pc \in {"initial_scan", "test_scan", "operational"}
    /\ ~bot.stopping
    /\ bot' = [bot EXCEPT !.is_running = FALSE,
                          !.scheduler_running = FALSE,
                          !.stopping = TRUE]
    /\ UNCHANGED <<detVars, btVars, alertVars, fetchVars>>
    /\ UNCHANGED <<confirmation, score, mtf, replay, opt, walk, scheduled, scanner>>

\* while self.is_running: await asyncio.sleep(1) ends, start() returns,
\* main() calls stop() and asyncio.run cancels the tasks still running
StartReturns ==
    /\ bot.pc = "operational"
    /\ ~bot.is_running
    /\ bot' = [bot EXCEPT !.pc = "returned", !.scan = None,
                          !.scheduler_running = FALSE, !.stopping = TRUE]
    /\ UNCHANGED <<detVars, btVars, alertVars, fetchVars>>
    /\ UNCHANGED <<confirmation, score, mtf, replay, opt, walk, scheduled, scanner>>

NextStop ==
    \/ BotStart
    \/ ScanPass
    \/ ScanFinish
    \/ ScheduledScan
    \/ Stop
    \/ StartReturns

SpecStop == InitStop /\ [][NextStop]_vars

\* a pass of the scan's loops begins and ends in this step
PassTaken ==
    /\ bot.scan # None
    /\ bot'.scan # None
    /\ <<bot'.scan.tf, bot'.scan.i>> # <<bot.scan.tf, bot.scan.i>>

\* C16: once stop() has cleared is_running, the scan in progress starts no
\* further pass of its loops, and its signals so far stay as they are.
C16_NoPassAfterStop ==
    [][(bot.stopping /\ bot.scan # None)
          => /\ ~PassTaken
             /\ bot'.scan # None => bot'.scan.all_signals = bot.scan.all_signals]_vars

\* stop() was called during the initial scan: the scan went through every
\* symbol, handed its signals on, and the bot is operational with
\* is_running set
C16_StopOverwritten ==
    /\ bot.stopping
    /\ bot.pc = "operational"
    /\ bot.is_running
    /\ bot.handed # None

-----------------------------------------------------------------------------
(* Synthetic series: a clean bearish divergence, flat series, and series   *)
(* with a single prominent pivot.  Each table carries the name of its      *)
(* scenario besides its columns.                                           *)

\* the clean bearish divergence: the highs and the RSI at the two peaks
CleanHigh1 == 100

CleanHigh2 == 110

CleanRsi1 == 70

CleanRsi2 == 55

\* the two peaks are this many bars apart
CleanGap == 10

\* the resting highs: the peaks stand at least 2 % above each of them
CleanBases == {90, 96, 98}

\* the candles after the three falling closes
CleanTails == {0, 1, 10, 15}

\* resting highs at base except the two peaks, lows 5 below the base, the
\* close at the base up to the second peak, then falling by 1 three times
MkClean(base, i1, tail) ==
    LET i2 == i1 + CleanGap
        n == i2 + EdgeSkip + tail
    IN  [scenario |-> "clean",
         len    |-> n,
         high   |-> [i \in 0..(n - 1) |->
                        IF i = i1 THEN CleanHigh1
                        ELSE IF i = i2 THEN CleanHigh2 ELSE base],
         low    |-> [i \in 0..(n - 1) |-> base - 5],
         close  |-> [i \in 0..(n - 1) |->
                        IF i <= i2 THEN base
                        ELSE base - Min2(i - i2, ConfirmCandles)],
         rsi    |-> [i \in 0..(n - 1) |->
                        IF i = i1 THEN CleanRsi1
                        ELSE IF i = i2 THEN CleanRsi2 ELSE RsiMid],
         volume |-> [i \in 0..(n - 1) |-> Volume]]

CleanTables ==
    { MkClean(base, i1, tail) :
        base \in CleanBases, i1 \in {EdgeSkip, 10, FarLead}, tail \in CleanTails }

\* lengths around the detectors' minimum row counts
FlatLengths ==
    {0, 1, MinPivotRows - 1, MinPivotRows, MinDetectRows - 1, MinDetectRows,
     MinReversalRows - 1, MinReversalRows, TouchLookback + 1, TouchLookback + 2,
     TouchLookback + 10}

\* below, at the edges of, inside and above the two RSI zones
FlatRsi == {20, 28, 33, 38, 50, 62, 67, 72, 80}

FlatPrices == {100, 300}

\* one price in every price column, one RSI; the last candles' volume is
\* the base volume or a surge
MkFlat(n, price, r, vol) ==
    [scenario |-> "flat",
     len    |-> n,
     high   |-> [i \in 0..(n - 1) |-> price],
     low    |-> [i \in 0..(n - 1) |-> price],
     close  |-> [i \in 0..(n - 1) |-> price],
     rsi    |-> [i \in 0..(n - 1) |-> r],
     volume |-> [i \in 0..(n - 1) |->
                    IF i >= n - RecentVolumeRows THEN vol ELSE BaseVolume]]

FlatTables ==
    { MkFlat(n, price, r, vol) :
        n \in FlatLengths, price \in FlatPrices, r \in FlatRsi,
        vol \in {BaseVolume, 2 * BaseVolume} }

\* a table with one pivot only: the second pivot of MkDf falls behind the
\* last row
MkLone(kind, n, i1, shape) ==
    [scenario |-> "lone"] @@ MkDf(kind, n, i1, n, shape, 10, FALSE, 0)

\* a table with two pivots; the first one is no prominent one when it
\* stands less than 2 % off the resting price
MkPair(kind, i1, shape, dr) ==
    [scenario |-> IF 100 * shape[2] < 2 * shape[1] THEN "lone" ELSE "pair"]
        @@ MkDf(kind, i1 + 10 + EdgeSkip + 1, i1, i1 + 10, shape, dr, FALSE,
                MinConfirming)

\* one pivot, prominent or with 1 % too flat to be; two pivots, both
\* prominent or the first one too flat
LoneTables ==
    { MkLone(kind, n, i1, shape) :
        kind \in {"peaks", "troughs"},
        n \in {MinDetectRows - 1, MinDetectRows, FarLead + 20},
        i1 \in {EdgeSkip, FarLead},
        shape \in {<<300, 10, 16>>, <<300, 3, 16>>} }
    \cup
    { MkPair(kind, FarLead, shape, dr) :
        kind \in {"peaks", "troughs"},
        shape \in {<<300, 10, 16>>, <<300, 3, 16>>, <<300, 15, 7>>},
        dr \in {-5, 10} }

ScenarioTables == CleanTables \cup FlatTables \cup LoneTables

InitScenario ==
    /\ df \in ScenarioTables
    /\ detector \in Detectors
    /\ DetIdle
    /\ BtIdle
    /\ AlertIdle
    /\ FetchIdle
    /\ ExtIdle

NextScenario ==
    \/ CallFindProminentPeaks
    \/ CallFindProminentTroughs
    \/ CallDetectAllDivergences
    \/ CallDetectAllReversals

SpecScenario == InitScenario /\ [][NextScenario]_vars

\* the two peaks of a clean series are peaks to find_prominent_peaks: each
\* has five candles or more on either side
BothPeaksFound == Len(find_prominent_peaks(df, detector, "high")) = 2

\* the detector's answer is the one BEARISH signal of the clean series
OneCleanBearish ==
    /\ Len(divergences) = 1
    /\ divergences[1].type = "BEARISH"
    /\ divergences[1].price1 = CleanHigh1
    /\ divergences[1].price2 = CleanHigh2
    /\ divergences[1].rsi1 = CleanRsi1
    /\ divergences[1].rsi2 = CleanRsi2

C17_ShortSeries ==
    /\ op = "detect_all_divergences"
    /\ df.scenario = "clean"
    /\ BothPeaksFound
    /\ df.len < MinDetectRows
    /\ divergences = <<>>

\* the second peak has four candles after it: it is no peak to the detector
C17_PeakAtTheEdge ==
    /\ op = "detect_all_divergences"
    /\ df.scenario = "clean"
    /\ df.len >= MinDetectRows
    /\ ~BothPeaksFound
    /\ divergences = <<>>

\* C18: a flat series of any length (one price in every column, one RSI)
\* yields no pivot from find_prominent_peaks and find_prominent_troughs and
\* no signal from detect_all_divergences and detect_all_reversals.
C18_FlatYieldsNothing ==
    df.scenario = "flat"
        => /\ op \in {"find_prominent_peaks", "find_prominent_troughs"}
                => pivots = <<>>
           /\ op = "detect_all_divergences" => divergences = <<>>
           /\ op = "detect_all_reversals" => reversals = <<>>

\* the pivots of a flat series long enough for every detector have been
\* asked for
C18_Witness ==
    /\ df.scenario = "flat"
    /\ df.len > TouchLookback
    /\ op = "find_prominent_peaks"
    /\ pivots = <<>>

\* detect_all_reversals has run on a flat series whose RSI rests inside the
\* support zone, under a surge of volume
C18_FlatInsideZone ==
    /\ df.scenario = "flat"
    /\ df.len > TouchLookback
    /\ df.rsi[0] = 33
    /\ df.volume[df.len - 1] > BaseVolume
    /\ op = "detect_all_reversals"
    /\ reversals = <<>>

\* the signals of one type among those returned
OfType(type) == SelectSeq(divergences, LAMBDA s : s.type = type)

\* C19: detect_bearish_divergence returns none when fewer than two
\* prominent peaks exist, detect_bullish_divergence returns none when fewer
\* than two prominent troughs exist, and a series with a single prominent
\* pivot and no second one gets an empty result from
\* detect_all_divergences.
C19_NeedsTwoPivots ==
    op = "detect_all_divergences"
        => /\ Len(find_prominent_peaks(df, detector, "high")) < 2
                => OfType("BEARISH") = <<>>
           /\ Len(find_prominent_troughs(df, detector, "low")) < 2
                => OfType("BULLISH") = <<>>
           /\ df.scenario = "lone" => divergences = <<>>

\* the detector has run on a series of 30 candles or more with exactly one
\* prominent peak
C19_Witness ==
    /\ op = "detect_all_divergences"
    /\ df.scenario = "lone"
    /\ df.len >= MinDetectRows
    /\ Len(find_prominent_peaks(df, detector, "high")) = 1
    /\ divergences = <<>>

\* with two prominent pivots the detector does report
C19_TwoPivotsReport ==
    /\ op = "detect_all_divergences"
    /\ df.scenario = "pair"
    /\ divergences # <<>>

-----------------------------------------------------------------------------
(* backtester.py: optimize_parameters.                                     *)
(*                                                                         *)
(* opt holds where the call stands (pc), the combinations simulated so far *)
(* in the order of the loops, the scores computed for the combinations     *)
(* that traded, and best_config and best_score.  The trades a combination  *)
(* comes to depend on the detector built for it; they are an input, made   *)
(* of results of _simulate_trade_outcome.                                  *)

\* if df is None or len(df) < 200
MinOptimizeRows == 200

swing_windows == <<2, 3, 4>>

rsi_thresholds == << <<35, 65>>, <<40, 60>>, <<30, 70>> >>

\* 0.5, 1.0, 1.5, 2.0
min_price_moves == << <<1, 2>>, <<1, 1>>, <<3, 2>>, <<2, 1>> >>

\* score = stats['win_rate'] + (stats['profit_factor'] * 20)
ProfitFactorWeight == 20

\* the k-th combination of the three nested loops, k = 1 .. 36
Combination(k) ==
    LET per_sw == Len(rsi_thresholds) * Len(min_price_moves)
        a == (k - 1) \div per_sw
        b == ((k - 1) % per_sw) \div Len(min_price_moves)
        c == (k - 1) % Len(min_price_moves)
    IN  [swing_window |-> swing_windows[a + 1],
         rsi_thresholds |-> rsi_thresholds[b + 1],
         min_price_move |-> min_price_moves[c + 1]]

GridSize == Len(swing_windows) * Len(rsi_thresholds) * Len(min_price_moves)

\* the result of a long trade entered at 100 whose lookahead is one candle
\* of the given shape
ResultOf(shape) ==
    SimCall("BULLISH", 100, TakeProfitPct, StopLossPct,
            <<Candle(100, shape, 1)>>).result

Won == ResultOf(<<3, 0, 2>>)

Lost == ResultOf(<<0, -3, -2>>)

TimedOut == ResultOf(<<1, -1, 0>>)

\* temp_trades of a combination: none, or a few results
TempTrades ==
    { <<>>, <<Won>>, <<Lost>>, <<TimedOut>>, <<Won, Lost>>, <<Won, Won, Lost>> }

ScoreOf(stats) ==
    RNorm(RAdd(stats.win_rate, RMul(stats.profit_factor, RInt(ProfitFactorWeight))))

UpdateBest_latest(best, combination, temp_trades) ==
    IF temp_trades = <<>> THEN best
    ELSE [config |-> combination @@ [stats |-> _calculate_statistics(temp_trades)],
          score |-> ScoreOf(_calculate_statistics(temp_trades))]

\* if temp_trades: ... if score > best_score: ...
UpdateBest(best, combination, temp_trades) ==
    IF temp_trades = <<>> THEN best
    ELSE LET Pick(stats) ==
                 IF RLt(best.score, ScoreOf(stats))
                 THEN [config |-> combination @@ [stats |-> stats],
                       score |-> ScoreOf(stats)]
                 ELSE best
         IN  CHOOSE r \in { Pick(stats) :
                              stats \in {_calculate_statistics(temp_trades)} } : TRUE

OptStarted ==
    [pc |-> "loop", simulated |-> <<>>, scored |-> {},
     best_config |-> None, best_score |-> RInt(0)]

InitOptimize ==
    /\ DetQuiet
    /\ BtIdle
    /\ AlertIdle
    /\ FetchIdle
    /\ ExtIdle

\* optimize_parameters up to its loops: "Insufficient data" and the return,
\* or best_config = None, best_score = 0
OptimizeParameters ==
    /\ opt = None
    /\ \E rows \in {0, MinOptimizeRows - 1, MinOptimizeRows, ExchangeLimit} :
          opt' = IF rows < MinOptimizeRows
                 THEN [OptStarted EXCEPT !.pc = "insufficient"]
                 ELSE OptStarted
    /\ UNCHANGED <<detVars, btVars, alertVars, fetchVars>>
    /\ UNCHANGED <<confirmation, score, mtf, replay, bot, walk, scheduled, scanner>>

\* one pass of the innermost loop: the walk with the combination's
\* detector, the statistics, the score and the comparison
OptimizeCombination ==
    /\ opt # None
    /\ opt.pc = "loop"
    /\ Len(opt.simulated) < GridSize
    /\ \E temp_trades \in TempTrades :
          \E best \in {UpdateBest([config |-> opt.best_config,
                                   score |-> opt.best_score],
                                  Combination(Len(opt.simulated) + 1),
                                  temp_trades)} :
              opt' = [opt EXCEPT
                         !.simulated = Append(@, Combination(Len(@) + 1)),
                         !.scored = IF temp_trades = <<>> THEN @
                                    ELSE @ \cup {ScoreOf(_calculate_statistics(
                                                             temp_trades))},
                         !.best_config = best.config,
                         !.best_score = best.score]
    /\ UNCHANGED <<detVars, btVars, alertVars, fetchVars>>
    /\ UNCHANGED <<confirmation, score, mtf, replay, bot, walk, scheduled, scanner>>

\* the loops are over: the optimal parameters, or "No optimal parameters
\* found", are printed
OptimizeDone ==
    /\ opt # None
    /\ opt.pc = "loop"
    /\ Len(opt.simulated) = GridSize
    /\ opt' = [opt EXCEPT !.pc = "done"]
    /\ UNCHANGED <<detVars, btVars, alertVars, fetchVars>>
    /\ UNCHANGED <<confirmation, score, mtf, replay, bot, walk, scheduled, scanner>>

NextOptimize ==
    \/ OptimizeParameters
    \/ OptimizeCombination
    \/ OptimizeDone

SpecOptimize == InitOptimize /\ [][NextOptimize]_vars

\* every combination of the three lists
Grid ==
    { [swing_window |-> swing_windows[a], rsi_thresholds |-> rsi_thresholds[b],
       min_price_move |-> min_price_moves[c]] :
        a \in DOMAIN swing_windows, b \in DOMAIN rsi_thresholds,
        c \in DOMAIN min_price_moves }

TimesSimulated(combination) ==
    Cardinality({k \in DOMAIN opt.simulated : opt.simulated[k] = combination})

\* C20: optimize_parameters simulates each of the 3 x 3 x 4 combinations of
\* swing window, RSI threshold pair and minimum price move exactly once,
\* and the configuration it selects has the score win_rate + 20 x
\* profit_factor that is the maximum over all combinations that traded.
C20_FullGridMaximum ==
    (opt # None /\ opt.pc = "done")
        => /\ Cardinality(Grid) = 36
           /\ \A combination \in Grid : TimesSimulated(combination) = 1
           /\ opt.best_config # None
                => /\ ScoreOf(opt.best_config.stats) = opt.best_score
                   /\ opt.best_score \in opt.scored
                   /\ \A s \in opt.scored : RLe(s, opt.best_score)

\* the search is over, a configuration is selected, and combinations with
\* lower scores, one of them later than the selected one, traded as well
C20_Witness ==
    /\ opt # None
    /\ opt.pc = "done"
    /\ opt.best_config # None
    /\ Cardinality(opt.scored) >= 3
    /\ opt.best_config.swing_window = 2

\* every combination that traded scored 0: none is selected
C20_NoneSelected ==
    /\ opt # None
    /\ opt.pc = "done"
    /\ opt.scored = {RInt(0)}
    /\ opt.best_config = None

-----------------------------------------------------------------------------
(* The constructors of the two detectors, called with thresholds of any    *)
(* kind, and the detect calls on the objects they build.  op is "new"      *)
(* until the detectors are built.                                          *)

\* HumanLikeDivergenceDetector.__init__: the object it leaves
HumanLikeDivergenceDetector(min_peak_prominence, min_rsi_divergence, lookback_candles, require_confirmation, min_time_between_peaks) ==
    [min_peak_prominence |-> min_peak_prominence,
     min_rsi_divergence |-> min_rsi_divergence,
     lookback_candles |-> lookback_candles,
     require_confirmation |-> require_confirmation,
     min_time_between_peaks |-> min_time_between_peaks]

\* RSISupportResistanceDetector.__init__: the object it leaves
RSISupportResistanceDetector(rsi_support_zone, rsi_resistance_zone, min_touches, price_trend_candles, min_price_trend, rsi_bounce_threshold, volume_multiplier, max_rsi_variance) ==
    [rsi_support_zone |-> rsi_support_zone,
     rsi_resistance_zone |-> rsi_resistance_zone,
     min_touches |-> min_touches,
     price_trend_candles |-> price_trend_candles,
     min_price_trend |-> min_price_trend,
     rsi_bounce_threshold |-> rsi_bounce_threshold,
     volume_multiplier |-> volume_multiplier,
     max_rsi_variance |-> max_rsi_variance]

\* lookback_candles and min_time_between_peaks a caller may pass: the
\* defaults, negative windows, and a minimum above the lookback
LookbackArgs == {-1, 50}

MinTimeArgs == {-1, 5, 60}

\* zones a caller may pass: the defaults, and zones whose lower edge lies
\* above the upper one
SupportZoneArgs == {<<28, 38>>, <<38, 28>>}

ResistanceZoneArgs == {<<62, 72>>, <<72, 62>>}

\* the thresholds describe windows that exist
ValidThresholds(det) ==
    /\ det.min_peak_prominence >= 0
    /\ det.min_rsi_divergence >= 0
    /\ det.lookback_candles >= 0
    /\ det.min_time_between_peaks >= 0
    /\ det.min_time_between_peaks <= det.lookback_candles

ValidZones(sr) ==
    /\ sr.rsi_support_zone[1] <= sr.rsi_support_zone[2]
    /\ sr.rsi_resistance_zone[1] <= sr.rsi_resistance_zone[2]
    /\ sr.min_touches >= 0
    /\ sr.price_trend_candles >= 0

InitConstruct ==
    /\ df \in CleanTables
    /\ detector = None
    /\ sr_detector = None
    /\ op = "new"
    /\ pivots = <<>>
    /\ divergences = <<>>
    /\ reversals = <<>>
    /\ BtIdle
    /\ AlertIdle
    /\ FetchIdle
    /\ ExtIdle

\* the two constructor calls, with the other arguments as main.py passes them
Construct ==
    /\ op = "new"
    /\ \E lookback_candles \in LookbackArgs, min_time_between_peaks \in MinTimeArgs,
          require_confirmation \in BOOLEAN :
           detector' = HumanLikeDivergenceDetector(2, 5, lookback_candles,
                                                   require_confirmation,
                                                   min_time_between_peaks)
    /\ \E rsi_support_zone \in SupportZoneArgs,
          rsi_resistance_zone \in ResistanceZoneArgs :
           sr_detector' = RSISupportResistanceDetector(rsi_support_zone,
                                                       rsi_resistance_zone, 3, 7, 2,
                                                       8, <<11, 10>>, 5)
    /\ op' = "idle"
    /\ UNCHANGED <<df, pivots, divergences, reversals>>
    /\ UNCHANGED <<btVars, alertVars, fetchVars, extVars>>

NextConstruct ==
    \/ Construct
    \/ CallDetectAllDivergences
    \/ CallDetectAllReversals

SpecConstruct == InitConstruct /\ [][NextConstruct]_vars

\* C21: a detector with invalid thresholds (a negative lookback_candles or
\* min_time_between_peaks, min_time_between_peaks above lookback_candles, a
\* zone whose edges are reversed) is rejected at construction, so that no
\* detect call ever runs on an invalid configuration.
C21_InvalidRejected ==
    /\ op = "detect_all_divergences" => ValidThresholds(detector)
    /\ op = "detect_all_reversals" => ValidZones(sr_detector)

\* a detect call has returned on thresholds with a negative window
C21_DetectsOnNegativeWindow ==
    /\ op = "detect_all_divergences"
    /\ detector.lookback_candles < 0
    /\ divergences = <<>>

-----------------------------------------------------------------------------
(* The same-candle tie-break of the trade simulator (SpecSim) *)

\* the candles of the window that touch both levels
TouchingBoth(call) ==
    {k \in 1..Len(call.future_df) : TouchesTP(call, k) /\ TouchesSL(call, k)}

\* C22: when the candle that decides the trade (the first one to touch a
\* level) satisfies both the take-profit and the stop-loss condition, the
\* take-profit check comes first for LONG and for SHORT alike: the trade is
\* a WIN at the take-profit price, left at that candle with a profit of
\* take_profit_pct.
C22_TakeProfitFirst ==
    sim # None =>
        \A k \in TouchingBoth(sim) :
            k = FirstOf(Touching(sim)) =>
                /\ sim.direction \in {"LONG", "SHORT"}
                /\ sim.result.outcome = "WIN"
                /\ sim.result.exit_price = sim.tp_price
                /\ sim.result.exit_time = sim.future_df[k].timestamp
                /\ sim.result.bars_held = k
                /\ REq(sim.result.profit_pct, RInt(sim.take_profit_pct))

\* a SHORT trade whose second candle is the first to touch a level and
\* touches both: a WIN at the take-profit price
C22_Witness ==
    /\ sim # None
    /\ sim.direction = "SHORT"
    /\ Len(sim.future_df) >= 2
    /\ Touching(sim) # {}
    /\ FirstOf(Touching(sim)) = 2
    /\ 2 \in TouchingBoth(sim)
    /\ sim.result.outcome = "WIN"
    /\ sim.result.exit_price = sim.tp_price

\* the same for a LONG trade, decided at its first candle
C22_LongBothAtOnce ==
    /\ sim # None
    /\ sim.direction = "LONG"
    /\ 1 \in TouchingBoth(sim)
    /\ sim.result.outcome = "WIN"
    /\ sim.result.bars_held = 1

-----------------------------------------------------------------------------
(* The two walks over history: the loop of backtest_single_coin            *)
(* (backtester.py) and the loop of EnhancedRSIBot.backtest (main.py).      *)
(*                                                                         *)
(* walk holds the table the loop runs over, the loop variable i and one    *)
(* record per pass: the positions of the table the detector was given      *)
(* (window), the position of the entry candle, and, when an outcome was    *)
(* judged, the entry price and the positions it was judged on (future).    *)

\* main.py: window_size, step_size and the thresholds of the quick judgement
ChunkSize == 200

StepSize == 50

MonthsTested == 12

QuickGain == <<102, 100>>

QuickDrop == <<98, 100>>

\* the positions df.iloc[lo:hi] selects in a table of n rows, as
\* <<first, last>>; <<first, first - 1>> when it selects none
IlocRange(lo, hi, n) == <<Min2(lo, n), Min2(hi, n) - 1>>

\* limit = min(timeframe_to_candles.get(timeframe, 10000), 1000)
MainBacktestLimit(timeframe, months) ==
    LET candles == CASE timeframe = "15m" -> 96 * 30 * months
                     [] timeframe = "30m" -> 48 * 30 * months
                     [] timeframe = "1h" -> 24 * 30 * months
                     [] timeframe = "4h" -> 6 * 30 * months
                     [] OTHER -> 10000
    IN  Min2(candles, ExchangeLimit)

\* one pass of the loop of backtest_single_coin at position i
BacktesterStep(d, i, det, call) ==
    LET Pass(found) ==
            [entry |-> i,
             window |-> IlocRange(Max2(0, i - WindowSize), i + 1, d.len),
             found |-> Len(found),
             simulated |-> found # <<>>,
             entry_price |-> d.close[i],
             future |-> IlocRange(i + 1, i + 1 + FutureCandles, d.len),
             wins |-> Len(WithOutcome(found, "WIN")),
             losses |-> Len(WithOutcome(found, "LOSS")),
             trades |-> found]
    IN  CHOOSE r \in
            { Pass(found) :
                found \in {TradesAt(d, i, det, call.symbol, call.timeframe,
                                    call.take_profit_pct, call.stop_loss_pct)} } :
            TRUE

\* the judgement of main.py on the closes at the positions lo .. hi
QuickWin(d, type, signal_price, lo, hi) ==
    IF type = "BULLISH"
    THEN RLt(<<signal_price * QuickGain[1], QuickGain[2]>>,
             RInt(SeqMax(d.close, lo, hi)))
    ELSE RLt(RInt(SeqMin(d.close, lo, hi)),
             <<signal_price * QuickDrop[1], QuickDrop[2]>>)

\* one pass of the loop of EnhancedRSIBot.backtest at position i
MainStep(d, i, det) ==
    LET signal_idx == i + ChunkSize - 1
        future == IlocRange(signal_idx, signal_idx + FutureCandles, d.len)
        Pass(divs) ==
            LET tested == IF signal_idx + FutureCandles >= d.len THEN <<>> ELSE divs
                won == SelectSeq(tested,
                                 LAMBDA div : QuickWin(d, div.type, d.close[signal_idx],
                                                       future[1], future[2]))
            IN  [entry |-> signal_idx,
                 window |-> IlocRange(i, i + ChunkSize, d.len),
                 found |-> Len(divs),
                 simulated |-> tested # <<>>,
                 entry_price |-> d.close[signal_idx],
                 future |-> future,
                 wins |-> Len(won),
                 losses |-> Len(tested) - Len(won),
                 trades |-> <<>>]
    IN  CHOOSE r \in
            { Pass(divs) :
                divs \in {SelectSeq(detect_all_divergences(Iloc(d, i, i + ChunkSize), det),
                                    LAMBDA div : ~(div.quality < QualityFloor * 10))} } :
            TRUE

\* the first position the loop does not visit
WalkEnd(w) ==
    IF w.method = "backtest_single_coin" THEN w.df.len - FutureCandles
    ELSE w.df.len - ChunkSize

\* the series: a divergence whose second pivot stands `lead` candles before
\* the entry candle `entry`, and from candle `move` on a price MovePct
\* percent beyond the level, in favour of the trade
MkWalkSeries(kind, n, entry, move) ==
    LET quiet == MkDf(kind, n, entry - 20, entry - 10, <<300, 10, 16>>, 10,
                      FALSE, MinConfirming)
        base == 300
        up == (base * (100 + MovePct)) \div 100
        down == (base * (100 - MovePct)) \div 100
    IN  [len |-> n,
         timestamp |-> [i \in 0..(n - 1) |-> i - (n - 1)],
         high |-> [i \in 0..(n - 1) |->
                      IF i >= move /\ kind = "troughs" THEN up ELSE quiet.high[i]],
         low |-> [i \in 0..(n - 1) |->
                     IF i >= move /\ kind = "peaks" THEN down ELSE quiet.low[i]],
         close |-> [i \in 0..(n - 1) |->
                       IF i < move THEN quiet.close[i]
                       ELSE IF kind = "troughs" THEN up ELSE down],
         rsi |-> quiet.rsi,
         volume |-> quiet.volume]

\* the entry candle of the first pass that finds the divergence, as a row
\* of the series the exchange returns
FirstEntry(method) ==
    IF method = "backtest_single_coin" THEN RsiWarmup + WindowSize
    ELSE RsiWarmup + ChunkSize - 1

\* rows enough for the first passes of the loop
WalkRows(method) ==
    IF method = "backtest_single_coin" THEN SeriesRows
    ELSE RsiWarmup + ChunkSize + StepSize + 10

\* the price moves at the last candle the code looks at, at the candle
\* after it, or not at all
WalkInputs ==
    { [method |-> method,
       series |-> MkWalkSeries(kind, WalkRows(method), FirstEntry(method),
                               FirstEntry(method) + late),
       call |-> [symbol |-> "BTC/USDT", timeframe |-> "1d",
                 lookback_days |-> WalkRows(method),
                 take_profit_pct |-> TakeProfitPct,
                 stop_loss_pct |-> StopLossPct]] :
        method \in {"backtest_single_coin", "backtest"},
        kind \in {"peaks", "troughs"},
        late \in {FutureCandles - 1, FutureCandles, FutureCandles + 1,
                  ChunkSize + FutureCandles} }

InitWalk ==
    /\ df = None
    /\ detector \in Detectors
    /\ DetIdle
    /\ BtIdle
    /\ AlertIdle
    /\ FetchIdle
    /\ ExtIdle

\* the method up to its loop: the fetch, the check of the row count and
\* calculate_rsi
WalkBegins ==
    /\ walk = None
    /\ \E input \in WalkInputs :
       \E fetched \in
              {IF input.method = "backtest_single_coin"
               THEN _fetch_historical_data(input.series, input.call.timeframe,
                                           input.call.lookback_days, now)
               ELSE FetchNewest(input.series,
                                MainBacktestLimit("15m", MonthsTested))} :
          walk' = IF fetched = None \/ fetched.len < MinBacktestRows
                  THEN [method |-> input.method, call |-> input.call,
                        pc |-> "insufficient", df |-> None, i |-> 0,
                        steps |-> <<>>]
                  ELSE [method |-> input.method, call |-> input.call,
                        pc |-> "loop", df |-> calculate_rsi(fetched),
                        i |-> IF input.method = "backtest_single_coin"
                              THEN WindowSize ELSE 0,
                        steps |-> <<>>]
    /\ coin_trades' = <<>>
    /\ UNCHANGED <<sim, bt_call, trades, results, summary>>
    /\ UNCHANGED <<detVars, alertVars, fetchVars>>
    /\ UNCHANGED <<confirmation, score, mtf, replay, bot, opt, scheduled, scanner>>

\* one pass of the loop
WalkStep ==
    /\ walk # None
    /\ walk.pc = "loop"
    /\ walk.i < WalkEnd(walk)
    /\ \E step \in {IF walk.method = "backtest_single_coin"
                    THEN BacktesterStep(walk.df, walk.i, detector, walk.call)
                    ELSE MainStep(walk.df, walk.i, detector)} :
          /\ walk' = [walk EXCEPT
                         !.i = IF walk.method = "backtest_single_coin"
                               THEN @ + 1 ELSE @ + StepSize,
                         !.steps = Append(@, [entry |-> step.entry,
                                              window |-> step.window,
                                              found |-> step.found,
                                              simulated |-> step.simulated,
                                              entry_price |-> step.entry_price,
                                              future |-> step.future,
                                              wins |-> step.wins,
                                              losses |-> step.losses])]
          /\ coin_trades' = coin_trades \o step.trades
    /\ UNCHANGED <<sim, bt_call, trades, results, summary>>
    /\ UNCHANGED <<detVars, alertVars, fetchVars>>
    /\ UNCHANGED <<confirmation, score, mtf, replay, bot, opt, scheduled, scanner>>

\* the loop is over: backtest_single_coin extends self.trades and
\* self.results, EnhancedRSIBot.backtest logs its counts
WalkEnds ==
    /\ walk # None
    /\ walk.pc = "loop"
    /\ walk.i >= WalkEnd(walk)
    /\ walk' = [walk EXCEPT !.pc = "done"]
    /\ IF walk.method = "backtest_single_coin"
       THEN \E out \in {BacktestOutcome([trades |-> trades, results |-> results,
                                         detector |-> detector],
                                        walk.df, coin_trades, walk.call)} :
               /\ trades' = out.trades
               /\ results' = out.results
       ELSE UNCHANGED <<trades, results>>
    /\ UNCHANGED <<sim, bt_call, coin_trades, summary>>
    /\ UNCHANGED <<detVars, alertVars, fetchVars>>
    /\ UNCHANGED <<confirmation, score, mtf, replay, bot, opt, scheduled, scanner>>

NextWalk ==
    \/ WalkBegins
    \/ WalkStep
    \/ WalkEnds

SpecWalk == InitWalk /\ [][NextWalk]_vars

\* the pass looked at nothing after its entry candle
NoLookAhead(w, s) ==
    /\ s.window[2] <= s.entry
    /\ \A k \in DOMAIN w.steps :
          w.steps[k].window[2] - w.steps[k].window[1] = s.window[2] - s.window[1]

\* the pass judged the outcome on the 20 candles after its entry candle
JudgedOnNextCandles(w, s) ==
    /\ s.entry_price = w.df.close[s.entry]
    /\ s.future = <<s.entry + 1, s.entry + FutureCandles>>
    /\ s.entry + FutureCandles <= w.df.len - 1

\* C23: the backtest walk has no look-ahead: at every pass the detector is
\* run on a window of one fixed size that holds only candles up to the
\* entry candle i, the entry price is the close of candle i, and the
\* outcome is judged on exactly the 20 candles i+1 .. i+20, all of which
\* exist.
C23_NoLookAhead ==
    (walk # None /\ walk.pc # "insufficient") =>
        \A k \in DOMAIN walk.steps :
            /\ NoLookAhead(walk, walk.steps[k])
            /\ walk.steps[k].simulated => JudgedOnNextCandles(walk, walk.steps[k])

\* the passes of backtest_single_coin are as C23 says
BacktesterWalkExact ==
    (walk # None /\ walk.method = "backtest_single_coin" /\ walk.pc # "insufficient") =>
        \A k \in DOMAIN walk.steps :
            /\ NoLookAhead(walk, walk.steps[k])
            /\ walk.steps[k].found > 0 => walk.steps[k].simulated
            /\ JudgedOnNextCandles(walk, walk.steps[k])

\* the passes of EnhancedRSIBot.backtest look at nothing after the entry
\* candle either, and judge on the entry candle and the 19 after it
MainWalkJudgesFromEntry ==
    (walk # None /\ walk.method = "backtest" /\ walk.pc # "insufficient") =>
        \A k \in DOMAIN walk.steps :
            /\ NoLookAhead(walk, walk.steps[k])
            /\ walk.steps[k].simulated =>
                  walk.steps[k].future =
                      <<walk.steps[k].entry, walk.steps[k].entry + FutureCandles - 1>>

\* EnhancedRSIBot.backtest counts a loss although the close of candle
\* i + 20 is beyond the threshold
C23_LastCandleIgnored ==
    /\ walk # None
    /\ walk.method = "backtest"
    /\ \E k \in DOMAIN walk.steps :
          /\ walk.steps[k].simulated
          /\ walk.steps[k].wins = 0
          /\ walk.steps[k].losses = 1
          /\ walk.df.close[walk.steps[k].entry + FutureCandles]
                 # walk.df.close[walk.steps[k].entry]

\* backtest_single_coin records a WIN decided by candle i + 20
C23_BacktesterUsesLastCandle ==
    /\ walk # None
    /\ walk.method = "backtest_single_coin"
    /\ \E k \in DOMAIN walk.steps :
          /\ walk.steps[k].simulated
          /\ walk.steps[k].wins = 1
          /\ \A j \in (walk.steps[k].entry + 1)..(walk.steps[k].entry + FutureCandles - 1) :
                walk.df.close[j] = walk.df.close[walk.steps[k].entry]

-----------------------------------------------------------------------------
(* Two scans at once: start() awaits the initial scan after it has started *)
(* the scheduler, so that a scan the scheduler triggers runs on the same   *)
(* event loop and the same database whenever the initial scan is suspended *)
(* at an await.  `runner` is the process_signals call of the initial scan, *)
(* `scheduled` the one of the scheduled scan; a call gives way only where  *)
(* the code awaits, in send_message and in asyncio.sleep.                  *)

InitConcurrent ==
    /\ DetQuiet
    /\ BtIdle
    /\ FetchIdle
    /\ now = 0
    /\ mode = "production"
    /\ db = <<>>
    /\ runner = RunnerIdle
    /\ sent = <<>>
    /\ confirmation = None
    /\ score = [previous |-> None, last |-> None]
    /\ mtf = MtfIdle
    /\ replay = <<>>
    /\ bot = None
    /\ opt = None
    /\ walk = None
    /\ scheduled = RunnerIdle
    /\ scanner = None

\* the scan the scheduler triggered calls process_signals
ScheduledSignalsBegin ==
    /\ scheduled.pc = "idle"
    /\ \E signals \in Batches :
          /\ Len(db) + Queued(runner) + Len(signals) <= MaxRows
          /\ scheduled' = [pc |-> "loop",
                        queue |-> SortByStrength(signals, Len(signals)),
                        record_id |-> 0, alerts_sent |-> 0, skipped |-> <<>>]
    /\ UNCHANGED <<now, mode, db, sent, runner>>
    /\ UNCHANGED <<detVars, btVars, fetchVars>>
    /\ UNCHANGED <<confirmation, score, mtf, replay, bot, opt, walk, scanner>>

\* its loop takes the next signal, up to the await of send_message
ScheduledSignal ==
    /\ scheduled.pc = "loop"
    /\ scheduled.queue # <<>>
    /\ \E signal \in {Head(scheduled.queue)} :
       \E is_bullish \in {signal.type = "BULLISH" \/ signal.direction = "BULLISH"},
          is_bearish \in {signal.type = "BEARISH" \/ signal.direction = "BEARISH"},
          signal_type \in {SignalType(signal)} :
          IF \/ is_bullish /\ ~SEND_BULLISH_ALERTS
             \/ is_bearish /\ ~SEND_BEARISH_ALERTS
          THEN /\ scheduled' = [scheduled EXCEPT !.queue = Tail(@)]
               /\ UNCHANGED <<db, sent>>
          ELSE IF is_duplicate_alert(db, signal.symbol, signal.timeframe,
                                     signal_type, CooldownHours, now)
          THEN /\ scheduled' = [scheduled EXCEPT !.queue = Tail(@),
                                           !.skipped = Append(@, signal)]
               /\ UNCHANGED <<db, sent>>
          ELSE /\ db' = save_divergence(db, signal)
               /\ IF mode = "production"
                  THEN /\ sent' = Append(sent,
                                     [symbol |-> signal.symbol,
                                      timeframe |-> signal.timeframe,
                                      type |-> signal_type,
                                      record_id |-> LastRowId(db'),
                                      at |-> now,
                                      delivered |-> "pending"])
                       /\ scheduled' = [scheduled EXCEPT !.pc = "send_message",
                                                   !.record_id = LastRowId(db')]
                  ELSE /\ scheduled' = [scheduled EXCEPT !.queue = Tail(@),
                                                   !.record_id = LastRowId(db')]
                       /\ UNCHANGED sent
    /\ UNCHANGED <<now, mode, runner>>
    /\ UNCHANGED <<detVars, btVars, fetchVars>>
    /\ UNCHANGED <<confirmation, score, mtf, replay, bot, opt, walk, scanner>>

\* its send_message is over: the row is marked and the call sleeps
ScheduledSendReturns ==
    /\ scheduled.pc = "send_message"
    /\ \E delivered \in BOOLEAN :
          sent' = Delivery(sent, scheduled.record_id, delivered)
    /\ db' = mark_as_alerted(db, scheduled.record_id, now)
    /\ scheduled' = [scheduled EXCEPT !.pc = "sleep", !.alerts_sent = @ + 1]
    /\ UNCHANGED <<now, mode, runner>>
    /\ UNCHANGED <<detVars, btVars, fetchVars>>
    /\ UNCHANGED <<confirmation, score, mtf, replay, bot, opt, walk, scanner>>

ScheduledSleepReturns ==
    /\ scheduled.pc = "sleep"
    /\ scheduled' = [scheduled EXCEPT !.pc = "loop", !.queue = Tail(@)]
    /\ UNCHANGED <<now, mode, db, sent, runner>>
    /\ UNCHANGED <<detVars, btVars, fetchVars>>
    /\ UNCHANGED <<confirmation, score, mtf, replay, bot, opt, walk, scanner>>

\* the call returns; the scheduler triggers no further scan
ScheduledSignalsEnd ==
    /\ scheduled.pc = "loop"
    /\ scheduled.queue = <<>>
    /\ scheduled' = [RunnerIdle EXCEPT !.pc = "returned"]
    /\ UNCHANGED <<now, mode, db, sent, runner>>
    /\ UNCHANGED <<detVars, btVars, fetchVars>>
    /\ UNCHANGED <<confirmation, score, mtf, replay, bot, opt, walk, scanner>>

NextConcurrent ==
    \/ Tick
    \/ ProcessSignalsBegin
    \/ ProcessSignal
    \/ SendMessageReturns
    \/ SleepReturns
    \/ ProcessSignalsEnd
    \/ ScheduledSignalsBegin
    \/ ScheduledSignal
    \/ ScheduledSendReturns
    \/ ScheduledSleepReturns
    \/ ScheduledSignalsEnd

SpecConcurrent == InitConcurrent /\ [][NextConcurrent]_vars

\* C24: whatever the interleaving of the two process_signals calls, at most
\* one alert is sent for a key (symbol, timeframe, signal type) within the
\* 2-hour cooldown: two alerts of one key lie at least 2 hours apart.
C24_OneAlertPerCooldown ==
    \A a \in DOMAIN sent, b \in DOMAIN sent :
        (a < b /\ SameKey(sent[a], sent[b]))
            => sent[b].at >= sent[a].at + CooldownHours

\* both calls have passed is_duplicate_alert for one key and both wait in
\* send_message
C24_BothSending ==
    /\ runner.pc = "send_message"
    /\ scheduled.pc = "send_message"
    /\ Len(sent) = 2
    /\ SameKey(sent[1], sent[2])
    /\ sent[1].at = sent[2].at
    /\ \A row \in Rows : ~row.alerted

-----------------------------------------------------------------------------
(* The touches of an RSI zone (SpecSR) *)

\* the rows of the scan of the last 60 candles whose RSI lies in the zone
InZoneRows(d, zone) ==
    {i \in Max2(0, d.len - TouchLookback)..(d.len - 1) : InZone(zone, d.rsi[i])}

\* the uninterrupted runs of in-zone rows, as <<first, last>>
ZoneRuns(d, zone) ==
    LET rows == InZoneRows(d, zone)
    IN  { <<lo, hi>> \in rows \X rows :
            /\ lo <= hi
            /\ \A i \in lo..hi : i \in rows
            /\ (lo - 1) \notin rows
            /\ (hi + 1) \notin rows }

\* the touches recorded inside a run
TouchesIn(touches, run) ==
    {k \in DOMAIN touches : touches[k].index >= run[1] /\ touches[k].index <= run[2]}

Collapsed(d, zone, touches) ==
    /\ \A a \in DOMAIN touches, b \in DOMAIN touches :
          a < b => touches[b].index - touches[a].index > TouchGap
    /\ \A run \in ZoneRuns(d, zone) : Cardinality(TouchesIn(touches, run)) <= 1

\* C25: in the scan of the last 60 candles in-zone candles within 3
\* candles of one another collapse into one touch: any two recorded touches
\* are more than 3 candles apart, an uninterrupted run of in-zone candles
\* is counted as one touch however long it is, and a reversal is emitted
\* only when at least min_touches touches were recorded.
C25_TouchesCollapse ==
    /\ Collapsed(df, sr_detector.rsi_support_zone,
                 _find_rsi_support_touches(df, sr_detector))
    /\ Collapsed(df, sr_detector.rsi_resistance_zone,
                 _find_rsi_resistance_touches(df, sr_detector))
    /\ \A k \in DOMAIN reversals :
          /\ reversals[k].touches >= sr_detector.min_touches
          /\ reversals[k].touches =
                IF reversals[k].type = "RSI_SUPPORT_REVERSAL"
                THEN Len(_find_rsi_support_touches(df, sr_detector))
                ELSE Len(_find_rsi_resistance_touches(df, sr_detector))

\* the parts of C25 that hold: recorded touches lie more than 3 candles
\* apart, and a reversal has at least min_touches of them
TouchesApart ==
    /\ \A kind \in {"support", "resistance"} :
          LET touches == IF kind = "support"
                         THEN _find_rsi_support_touches(df, sr_detector)
                         ELSE _find_rsi_resistance_touches(df, sr_detector)
          IN  \A a \in DOMAIN touches, b \in DOMAIN touches :
                  a < b => touches[b].index - touches[a].index > TouchGap
    /\ \A k \in DOMAIN reversals : reversals[k].touches >= sr_detector.min_touches

\* a reversal emitted on 3 touches that are one visit of the zone: nine
\* consecutive in-zone candles
C25_OneVisitThreeTouches ==
    /\ op = "detect_all_reversals"
    /\ Len(reversals) = 1
    /\ reversals[1].type = "RSI_SUPPORT_REVERSAL"
    /\ reversals[1].touches = 3
    /\ Cardinality(ZoneRuns(df, sr_detector.rsi_support_zone)) = 1
    /\ Cardinality(InZoneRows(df, sr_detector.rsi_support_zone)) = 9

-----------------------------------------------------------------------------
(* A symbol that fails during a scan (SpecScan).                           *)
(*                                                                         *)
(* The loop body of perform_enhanced_scan (main.py) and the loop body of   *)
(* Scanner.scan_multiple_coins with its call of scan_single_coin           *)
(* (scanner.py), one pass per step.  What fetch_ohlcv returns, what the    *)
(* detectors find and the call that raises, if one does, are inputs of     *)
(* the pass; `last` keeps them with the scan.  main.py creates no Scanner  *)
(* and scanner.py no EnhancedRSIBot: a run is of one of the two.           *)

\* fetch_ohlcv returned None, fewer than 50 candles, or a full table
FetchResults == {"none", "short", "table"}

\* what detect_all_divergences returns: nothing, a divergence of quality
\* below 60, a divergence of quality 60 or more
DivergenceFinds == {"nothing", "weak", "strong"}

\* what detect_all_reversals returns: nothing or a reversal (strength >= 50)
ReversalFinds == {"nothing", "reversal"}

\* the call of the try block of perform_enhanced_scan that raises
EnhancedRaises == {"never", "calculate_rsi", "detect_all_divergences",
                   "detect_all_reversals"}

\* the call of scan_single_coin that raises, or the print of the loop body
\* of scan_multiple_coins that reports the divergences found
ScannerRaises == {"never", "calculate_rsi", "detect_all_divergences", "print"}

PassInputs(raises) ==
    {[fetch |-> "none", divs |-> "nothing", revs |-> "nothing", raises |-> "never"],
     [fetch |-> "short", divs |-> "nothing", revs |-> "nothing", raises |-> "never"]}
    \cup [fetch : {"table"}, divs : DivergenceFinds, revs : ReversalFinds,
          raises : raises]

\* the pass is one the claim speaks of: no data, too little data, or a raise
FailedPass(in) == in.fetch \in {"none", "short"} \/ in.raises # "never"

TaggedSignal(symbol, tf, signal_type) ==
    [symbol |-> symbol, timeframe |-> tf, signal_type |-> signal_type]

\* all_signals after the try block of perform_enhanced_scan for one symbol
EnhancedSignals(all_signals, symbol, tf, in) ==
    LET afterDivs == IF in.divs = "strong"
                     THEN Append(all_signals, TaggedSignal(symbol, tf, "DIVERGENCE"))
                     ELSE all_signals
        afterRevs == IF in.revs = "reversal"
                     THEN Append(afterDivs, TaggedSignal(symbol, tf, "RSI_REVERSAL"))
                     ELSE afterDivs
    IN  IF in.fetch \in {"none", "short"} THEN all_signals
        ELSE IF in.raises \in {"calculate_rsi", "detect_all_divergences"}
             THEN all_signals
        ELSE IF in.raises = "detect_all_reversals" THEN afterDivs
        ELSE afterRevs

\* Scanner.scan_single_coin: the tagged divergences; <<>> stands for the
\* None it returns, which its caller tests with `if divergences:`
scan_single_coin(symbol, tf, in) ==
    IF in.fetch \in {"none", "short"} THEN <<>>
    ELSE IF in.raises \in {"calculate_rsi", "detect_all_divergences"} THEN <<>>
    ELSE IF in.divs = "nothing" THEN <<>>
    ELSE <<TaggedSignal(symbol, tf, "DIVERGENCE")>>

\* the fields of a Scanner after __init__
ScannerCreated ==
    [scan_count |-> 0, total_divergences_found |-> 0, scan |-> None,
     returned |-> None]

InitScan ==
    /\ DetQuiet
    /\ BtIdle
    /\ AlertIdle
    /\ FetchIdle
    /\ confirmation = None
    /\ score = [previous |-> None, last |-> None]
    /\ mtf = MtfIdle
    /\ replay = <<>>
    /\ opt = None
    /\ walk = None
    /\ scheduled = None
    /\ bot = BotCreated
    /\ scanner = ScannerCreated

\* perform_enhanced_scan begins: scan_count += 1, all_signals = []
EnhancedScanBegins ==
    /\ scanner = ScannerCreated
    /\ bot.scan = None
    /\ bot.scan_count < MaxScans
    /\ bot' = [bot EXCEPT !.scan_count = bot.scan_count + 1,
                          !.scan = [tf |-> 1, i |-> 1, all_signals |-> <<>>,
                                    last |-> None]]
    /\ UNCHANGED <<detVars, btVars, alertVars, fetchVars>>
    /\ UNCHANGED <<confirmation, score, mtf, replay, opt, walk, scheduled, scanner>>

\* one pass of the loop body of perform_enhanced_scan
EnhancedPass ==
    /\ bot.scan # None
    /\ ~ScanExhausted(bot.scan)
    /\ \E in \in PassInputs(EnhancedRaises) :
          bot' = [bot EXCEPT
                     !.scan = [tf |-> IF bot.scan.i = WatchlistSize
                                      THEN bot.scan.tf + 1 ELSE bot.scan.tf,
                               i |-> IF bot.scan.i = WatchlistSize
                                     THEN 1 ELSE bot.scan.i + 1,
                               all_signals |->
                                   EnhancedSignals(bot.scan.all_signals,
                                                   Watchlist[bot.scan.i],
                                                   ScanTimeframes[bot.scan.tf], in),
                               last |-> in]]
    /\ UNCHANGED <<detVars, btVars, alertVars, fetchVars>>
    /\ UNCHANGED <<confirmation, score, mtf, replay, opt, walk, scheduled, scanner>>

\* the loops are over: all_signals goes to process_signals if it is not empty
EnhancedScanEnds ==
    /\ bot.scan # None
    /\ ScanExhausted(bot.scan)
    /\ bot' = [bot EXCEPT
                  !.scan = None,
                  !.handed = IF bot.scan.all_signals # <<>>
                             THEN [type |-> "signals",
                                   signals |-> bot.scan.all_signals]
                             ELSE bot.handed]
    /\ UNCHANGED <<detVars, btVars, alertVars, fetchVars>>
    /\ UNCHANGED <<confirmation, score, mtf, replay, opt, walk, scheduled, scanner>>

\* scan_multiple_coins(symbols, timeframe, max_coins) up to its loop
ScanMultipleBegins ==
    /\ bot = BotCreated
    /\ scanner.scan = None
    /\ scanner.scan_count < MaxScans
    /\ \E max_coins \in 1..WatchlistSize, tf \in {"15m", "30m"} :
          scanner' = [scanner EXCEPT
                         !.scan = [symbols |-> SubSeq(Watchlist, 1, max_coins),
                                   timeframe |-> tf, i |-> 1,
                                   all_divergences |-> <<>>, scanned |-> 0,
                                   last |-> None]]
    /\ UNCHANGED <<detVars, btVars, alertVars, fetchVars>>
    /\ UNCHANGED <<confirmation, score, mtf, replay, bot, opt, walk, scheduled>>

\* one pass of the loop body of scan_multiple_coins
ScannerPass ==
    /\ scanner.scan # None
    /\ scanner.scan.i <= Len(scanner.scan.symbols)
    /\ \E in \in PassInputs(ScannerRaises) :
          LET s == scanner.scan
              divs == scan_single_coin(s.symbols[s.i], s.timeframe, in)
              found == divs # <<>>
              printed == ~(found /\ in.raises = "print")
          IN  scanner' =
                [scanner EXCEPT
                    !.total_divergences_found =
                        IF found /\ printed THEN @ + Len(divs) ELSE @,
                    !.scan = [s EXCEPT
                                 !.i = s.i + 1,
                                 !.all_divergences =
                                     IF found /\ printed THEN @ \o divs
                                     ELSE @,
                                 !.scanned = IF printed THEN @ + 1 ELSE @,
                                 !.last = in]]
    /\ UNCHANGED <<detVars, btVars, alertVars, fetchVars>>
    /\ UNCHANGED <<confirmation, score, mtf, replay, bot, opt, walk, scheduled>>

\* after the loop: scan_count += 1, return all_divergences
ScanMultipleEnds ==
    /\ scanner.scan # None
    /\ scanner.scan.i > Len(scanner.scan.symbols)
    /\ scanner' = [scanner EXCEPT !.scan_count = @ + 1,
                                  !.scan = None,
                                  !.returned = [type |-> "signals",
                                                signals |-> scanner.scan.all_divergences]]
    /\ UNCHANGED <<detVars, btVars, alertVars, fetchVars>>
    /\ UNCHANGED <<confirmation, score, mtf, replay, bot, opt, walk, scheduled>>

NextScan ==
    \/ EnhancedScanBegins
    \/ EnhancedPass
    \/ EnhancedScanEnds
    \/ ScanMultipleBegins
    \/ ScannerPass
    \/ ScanMultipleEnds

SpecScan == InitScan /\ [][NextScan]_vars

\* a pass of perform_enhanced_scan in this step, for a symbol that failed
EnhancedFailure ==
    /\ bot.scan # None
    /\ bot'.scan # None
    /\ <<bot'.scan.tf, bot'.scan.i>> # <<bot.scan.tf, bot.scan.i>>
    /\ FailedPass(bot'.scan.last)

\* a pass of scan_multiple_coins in this step, for a symbol that failed
ScannerFailure ==
    /\ scanner.scan # None
    /\ scanner'.scan # None
    /\ scanner'.scan.i # scanner.scan.i
    /\ \/ FailedPass(scanner'.scan.last)
       \/ scanner'.scan.last.raises = "print"

\* the position after (tf, i) in the two loops of perform_enhanced_scan
NextPosition(scan) ==
    IF scan.i = WatchlistSize THEN <<scan.tf + 1, 1>> ELSE <<scan.tf, scan.i + 1>>

\* C26: a symbol for which fetch_ohlcv yields None or fewer than 50
\* candles, or whose processing raises, adds no signal to the scan, leaves
\* the signals collected so far as they are, and the scan goes on with the
\* next symbol or timeframe.
C26_FailureLikeNoData ==
    [][/\ EnhancedFailure
          => /\ bot'.scan.all_signals = bot.scan.all_signals
             /\ <<bot'.scan.tf, bot'.scan.i>> = NextPosition(bot.scan)
       /\ ScannerFailure
          => /\ scanner'.scan.all_divergences = scanner.scan.all_divergences
             /\ scanner'.scan.i = scanner.scan.i + 1]_vars

\* what holds of perform_enhanced_scan: a failed symbol takes no collected
\* signal away and the scan goes on
EnhancedKeepsAndGoesOn ==
    [][EnhancedFailure
          => /\ Len(bot.scan.all_signals) <= Len(bot'.scan.all_signals)
             /\ SubSeq(bot'.scan.all_signals, 1, Len(bot.scan.all_signals))
                    = bot.scan.all_signals
             /\ <<bot'.scan.tf, bot'.scan.i>> = NextPosition(bot.scan)]_vars

\* Scanner treats every failure as no data
ScannerFailureLikeNoData ==
    [][ScannerFailure
          => /\ scanner'.scan.all_divergences = scanner.scan.all_divergences
             /\ scanner'.scan.i = scanner.scan.i + 1]_vars

\* detect_all_reversals raised for a symbol whose divergence had been
\* appended: the signal of the failed symbol goes to process_signals
C26_SignalOfFailedSymbol ==
    /\ bot.scan # None
    /\ bot.scan.last # None
    /\ bot.scan.last.raises = "detect_all_reversals"
    /\ bot.scan.all_signals # <<>>
    /\ LET s == bot.scan.all_signals[Len(bot.scan.all_signals)]
       IN  /\ bot.scan.i # 1 => s.symbol = Watchlist[bot.scan.i - 1]
           /\ bot.scan.i = 1 => s.symbol = Watchlist[WatchlistSize]

\* a scan of Scanner went on after a symbol without data and returned the
\* divergence of a later symbol
C26_ScannerWentOn ==
    /\ scanner.returned # None
    /\ Len(scanner.returned.signals) = 1
    /\ scanner.returned.signals[1].symbol = Watchlist[WatchlistSize]

-----------------------------------------------------------------------------
(* What a call of the core leaves behind (SpecFrame).                      *)
(*                                                                         *)
(* df is the table given to the detectors, mtf.higher_df the table given   *)
(* to get_trend_direction, mtf.results what it returned; trades and        *)
(* results are the fields of the backtester.  A call returns before the    *)
(* next one begins.                                                        *)

\* at most this many trades are recorded
FrameTrades == 2

\* the column df['ema'] = ema_indicator.ema_indicator(): the rows before
\* ema_period - 1 hold NaN and are left out
EmaColumn(d, ema_period) ==
    [i \in (ema_period - 1)..(d.len - 1) |-> EmaAt(d.close, ema_period, i)]

\* the table given to get_trend_direction, after the call
AfterTrendCall(d, ema_period) ==
    IF d.len < ema_period + EmaSpare THEN d
    ELSE [len |-> d.len, close |-> d.close, ema |-> EmaColumn(d, ema_period)]

\* a table of enough rows for the EMA and one that is a row short
FrameTrendTables ==
    { MkTrend(EmaPeriod + EmaSpare, TrendBase + 3, 1),
      MkTrend(EmaPeriod + EmaSpare - 1, TrendBase + 3, 1) }

\* a table with a clean bearish divergence
FrameTables == { MkClean(96, FarLead, tail) : tail \in {0, 10} }

InitFrame ==
    /\ df \in FrameTables
    /\ detector = MainDetector
    /\ DetIdle
    /\ BtIdle
    /\ AlertIdle
    /\ FetchIdle
    /\ confirmation = None
    /\ score = [previous |-> None, last |-> None]
    /\ \E higher_df \in FrameTrendTables :
          mtf = [MtfIdle EXCEPT !.higher_df = higher_df]
    /\ RunIdle

\* get_trend_direction(higher_df) is called and returns
CallGetTrendDirection ==
    /\ op = "idle"
    /\ op' = "get_trend_direction"
    /\ mtf' = [mtf EXCEPT
                  !.higher_df = AfterTrendCall(mtf.higher_df, EmaPeriod),
                  !.results = [type |-> "trend",
                               higher_trend |->
                                   get_trend_direction(mtf.higher_df, EmaPeriod)]]
    /\ UNCHANGED <<df, detector, pivots, divergences, sr_detector, reversals>>
    /\ UNCHANGED <<btVars, alertVars, fetchVars, confirmation, score, runVars>>

\* the caller takes the value returned
CallReturns ==
    /\ op \in {"detect_all_divergences", "detect_all_reversals", "get_trend_direction"}
    /\ op' = "idle"
    /\ UNCHANGED <<df, detector, pivots, divergences, sr_detector, reversals>>
    /\ UNCHANGED <<btVars, alertVars, fetchVars, extVars>>

FrameBacktestBegin ==
    /\ op = "idle"
    /\ BacktestBegin

FrameBacktestSignal ==
    /\ Len(trades) < FrameTrades
    /\ BacktestSignal

NextFrame ==
    \/ CallDetectAllDivergences
    \/ CallDetectAllReversals
    \/ CallGetTrendDirection
    \/ CallReturns
    \/ FrameBacktestBegin
    \/ FrameBacktestSignal
    \/ BacktestEnd

SpecFrame == InitFrame /\ [][NextFrame]_vars

\* a call of one of the two detectors or of get_trend_direction in this step
CoreCall ==
    /\ op = "idle"
    /\ op' \in {"detect_all_divergences", "detect_all_reversals", "get_trend_direction"}

\* a step of a call of backtest_single_coin
BacktestCallStep == bt_call # None \/ bt_call' # None

\* the tables and the fields of the objects are as they were
ObjectsUnchanged ==
    /\ df' = df
    /\ mtf'.higher_df = mtf.higher_df
    /\ detector' = detector
    /\ sr_detector' = sr_detector
    /\ trades' = trades
    /\ results' = results

\* the value returned is built from the arguments of this call alone
FreshResult ==
    /\ op' = "detect_all_divergences"
          => divergences' = detect_all_divergences(df, detector)
    /\ op' = "detect_all_reversals"
          => reversals' = detect_all_reversals(df, sr_detector)
    /\ op' = "get_trend_direction"
          => mtf'.results.higher_trend = get_trend_direction(mtf.higher_df, EmaPeriod)

\* C27: a call of detect_all_divergences, detect_all_reversals,
\* get_trend_direction or backtest_single_coin leaves the series it was
\* given and every field of the detector or backtester unchanged, and what
\* it returns is built afresh from its arguments.
C27_NoSharedState ==
    [][/\ CoreCall => (ObjectsUnchanged /\ FreshResult)
       /\ BacktestCallStep => ObjectsUnchanged]_vars

\* the two detectors change nothing, and every call builds its result afresh
DetectorsChangeNothing ==
    [][/\ (CoreCall /\ op' # "get_trend_direction") => ObjectsUnchanged
       /\ CoreCall => FreshResult
       /\ BacktestCallStep
             => (df' = df /\ detector' = detector /\ sr_detector' = sr_detector)]_vars

\* get_trend_direction has written the column 'ema' into its caller's table
C27_EmaColumnAdded ==
    /\ op = "get_trend_direction"
    /\ "ema" \in DOMAIN mtf.higher_df
    /\ mtf.results.higher_trend # "UNKNOWN"

\* a call of backtest_single_coin has returned and left its trades and its
\* statistics on the backtester
C27_TradesLeftBehind ==
    /\ bt_call = None
    /\ trades # <<>>
    /\ results # <<>>

-----------------------------------------------------------------------------
(* The order of the steps of process_signals (SpecAlert) *)

\* the call of process_signals stands in await send_message for this row
BeingSent(row) == runner.pc = "send_message" /\ runner.record_id = row.id

\* the alert handed to send_message for the row
AlertsOf(row) == {alert \in Alerts : alert.record_id = row.id}

\* C28: in production mode process_signals takes each signal through
\* duplicate check, save, send, mark: an alert is sent only for a saved row
\* whose key was no duplicate, a row is marked only once send_message is
\* over, every saved row is marked in the same pass whether its alert was
\* delivered or not, and a row whose delivery failed suppresses its key
\* for the cooldown like any other.
C28_SavedIsMarked ==
    mode = "production" =>
        /\ \A alert \in Alerts :
              /\ alert.record_id \in DOMAIN db
              /\ SameKey(alert, db[alert.record_id])
              /\ (alert.delivered = "pending") <=> ~db[alert.record_id].alerted
              /\ \A row \in Rows :
                    (row.alerted /\ SameKey(row, alert) /\ row.id < alert.record_id)
                        => alert.at >= row.alerted_at + CooldownHours
        /\ \A row \in Rows :
              /\ AlertsOf(row) # {}
              /\ ~row.alerted => BeingSent(row)
              /\ row.alerted => \A alert \in AlertsOf(row) : alert.at <= row.alerted_at
              /\ (row.alerted /\ now < row.alerted_at + CooldownHours)
                    => DuplicateNow(row)

\* the alert of a row was not delivered, the row is marked all the same,
\* and within the cooldown a later signal of its key was skipped as a
\* duplicate
C28_Witness ==
    /\ mode = "production"
    /\ runner.skipped # <<>>
    /\ \E alert \in Alerts :
          /\ alert.delivered = "failed"
          /\ db[alert.record_id].alerted
          /\ now < db[alert.record_id].alerted_at + CooldownHours
          /\ \A other \in Alerts : other = alert
          /\ SameKey(alert, [symbol |-> runner.skipped[1].symbol,
                             timeframe |-> runner.skipped[1].timeframe,
                             type |-> SignalType(runner.skipped[1])])

-----------------------------------------------------------------------------
(* The confirmed flag of the divergences emitted (SpecConfirm) *)

\* the score of the pair without the confirmation bonus, in tenths
ScoreUnconfirmed(b) ==
    _calculate_quality_score(RAbs(b.price_change_pct), Abs(b.rsi_change),
                             RMin(b.peak1.prominence, b.peak2.prominence), FALSE)

\* C29: every divergence emitted has confirmed = TRUE and the 20 points of
\* the confirmation bonus in its quality; with require_confirmation enabled
\* a pair that is not confirmed is dropped, with it disabled
\* check_price_action_confirms reports confirmed whatever candles follow,
\* and when none does.
C29_AlwaysConfirmed ==
    /\ op = "detect_all_divergences" =>
          \A type \in Types :
              /\ \A k \in Emitted(type) :
                    /\ divergences[k].confirmed
                    /\ divergences[k].quality =
                          Min2(ScoreUnconfirmed(PairOf(type)) + ConfirmationBonus * 10,
                               ScoreMax * 10)
              /\ (/\ detector.require_confirmation
                  /\ PairOf(type).found
                  /\ ~ConfirmationHolds(type, PairOf(type).peak2.index))
                    => Emitted(type) = {}
    /\ (op = "check_price_action_confirms" /\ ~detector.require_confirmation)
          => /\ confirmation.result.confirmed
             /\ confirmation.result.reason = "Confirmed"

\* with require_confirmation disabled a divergence is emitted as confirmed
\* although fewer than 2 of the candles after its second pivot confirm it
C29_Witness ==
    /\ ~detector.require_confirmation
    /\ op = "detect_all_divergences"
    /\ \E k \in 1..Len(divergences) :
          /\ Confirming(divergences[k].type, divergences[k].peak2_idx) < MinConfirming
          /\ divergences[k].confirmed

\* with require_confirmation disabled the check reports confirmed at the
\* last position of the table, where no candle follows
C29_NoCandleInspected ==
    /\ ~detector.require_confirmation
    /\ op = "check_price_action_confirms"
    /\ Following(confirmation.current_idx) = {}
    /\ confirmation.result.confirmed

-----------------------------------------------------------------------------
(* A walk that ends in an exception (SpecBacktestRaises).                  *)
(*                                                                         *)
(* SpecBacktest with one more way for a call of backtest_single_coin to    *)
(* end: a call inside its loop raises.  backtest_multiple_coins catches    *)
(* the exception, prints it and goes on with the next symbol.              *)

\* the loop of backtest_single_coin raises: coin_trades is lost with the
\* frame, self.trades keeps what line 134 appended, line 144 is not reached
BacktestRaises ==
    /\ bt_call # None
    /\ bt_call' = None
    /\ coin_trades' = <<>>
    /\ UNCHANGED <<sim, trades, results, summary>>
    /\ UNCHANGED <<detVars, alertVars, fetchVars, extVars>>

NextBacktestRaises ==
    \/ BacktestBegin
    \/ BacktestSignal
    \/ BacktestEnd
    \/ BacktestRaises
    \/ PrintSummary

SpecBacktestRaises == InitBacktest /\ [][NextBacktestRaises]_vars

\* C30: between the calls of backtest_single_coin, whether they returned
\* or raised part-way, self.trades has as many entries as the total_trades
\* of self.results add up to.
C30_TradesMatchResults ==
    bt_call = None => Len(trades) = SumField(results, "total_trades")

\* self.trades never holds fewer trades than the statistics count, and
\* during a call the difference is the trades of the walk so far
TradesCoverResults ==
    /\ Len(trades) >= SumField(results, "total_trades")
    /\ (bt_call # None /\ Len(trades) = SumField(results, "total_trades"))
          => coin_trades = <<>>

\* print_summary reports fewer trades than self.trades holds: a walk
\* raised after its first trade, another symbol was tested to the end
C30_SummaryMissesTrades ==
    /\ summary # None
    /\ bt_call = None
    /\ summary.total_trades < Len(trades)
    /\ summary.total_trades > 0

====
